---- MODULE Spec2Model ----
(***************************************************************************)
(* Smart Dialogue Colorizer: the avatar colour pipeline.                   *)
(*                                                                         *)
(*   color-utils.js  swatchCache / pendingSwatches, getSwatchesFromImage,  *)
(*                   getSmartAvatarColor                                   *)
(*   index.js        avatarColorCache / cacheInsertionOrder, addToCache,   *)
(*                   clearCacheFor*, getCharacterDialogueColor and the     *)
(*                   event handlers that invalidate and refresh            *)
(*                                                                         *)
(* JavaScript runs the handlers on one thread; a handler runs to its next  *)
(* await without interruption.  Every action below is one such run.        *)
(***************************************************************************)
EXTENDS Integers, Sequences, FiniteSets, TLC

\* ------------------------------------------------------------------------
\* Bounds of the model
\* ------------------------------------------------------------------------

\* getCharacterDialogueColor calls started in one behaviour
MaxStarts == 2
\* invalidations and setting changes in one behaviour
MaxEvents == 1

\* ------------------------------------------------------------------------
\* Program constants
\* ------------------------------------------------------------------------

MAX_CACHE_SIZE == 100
MaxSwatchCacheSize == 50
DEFAULT_STATIC_DIALOGUE_COLOR_RGB == <<225, 138, 36>>

CHARACTER == "character"
PERSONA == "persona"
CharacterType == {CHARACTER, PERSONA}

requiredSwatches ==
    <<"Vibrant", "DarkVibrant", "LightVibrant", "Muted", "DarkMuted", "LightMuted">>

\* ------------------------------------------------------------------------
\* Sequence helpers
\* ------------------------------------------------------------------------

Range(s) == {s[i] : i \in 1..Len(s)}

\* String.prototype.startsWith
startsWith(s, prefix) ==
    /\ Len(prefix) <= Len(s)
    /\ SubSeq(s, 1, Len(prefix)) = prefix

\* Array.prototype.indexOf: 0 when absent (JavaScript's -1)
indexOf(s, x) ==
    IF x \in Range(s) THEN CHOOSE i \in 1..Len(s) : s[i] = x /\ \A j \in 1..(i - 1) : s[j] # x
    ELSE 0

\* s without its element at position i
RemoveAt(s, i) == SubSeq(s, 1, i - 1) \o SubSeq(s, i + 1, Len(s))

Max3(a, b, c) == IF a >= b /\ a >= c THEN a ELSE IF b >= c THEN b ELSE c
Min3(a, b, c) == IF a <= b /\ a <= c THEN a ELSE IF b <= c THEN b ELSE c

\* Math.round of the non-negative rational n / d
TruncDiv(n, d) == n \div d
RoundDiv(n, d) == (2 * n + d) \div (2 * d)

\* ------------------------------------------------------------------------
\* JavaScript Number arithmetic (IEEE 754 binary64, round to nearest, ties to
\* even) on the non-negative values the colour functions compute
\* ------------------------------------------------------------------------

\* A natural number of any size: its digits in base 2^15, lowest first, with
\* no leading zero digit (zero is <<>>).
Base == 32768

RECURSIVE NatOf(_)
NatOf(n) == IF n = 0 THEN <<>> ELSE <<n % Base>> \o NatOf(n \div Base)

Digit(a, i) == IF i <= Len(a) THEN a[i] ELSE 0

Strip(a) ==
    LET nz == {i \in 1..Len(a) : a[i] # 0}
    IN  IF nz = {} THEN <<>>
        ELSE SubSeq(a, 1, CHOOSE i \in nz : \A j \in nz : j <= i)

\* The number of binary digits of a.
BitLen(a) ==
    IF a = <<>> THEN 0
    ELSE 15 * (Len(a) - 1)
         + (CHOOSE k \in 1..15 : 2^(k - 1) <= a[Len(a)] /\ a[Len(a)] < 2^k)

\* -1, 0 or 1 as a is less than, equal to or greater than b.
Cmp(a, b) ==
    IF Len(a) # Len(b) THEN (IF Len(a) < Len(b) THEN -1 ELSE 1)
    ELSE LET diff == {i \in 1..Len(a) : a[i] # b[i]}
         IN  IF diff = {} THEN 0
             ELSE LET top == CHOOSE i \in diff : \A j \in diff : j <= i
                  IN  IF a[top] < b[top] THEN -1 ELSE 1

RECURSIVE AddFrom(_, _, _, _)
AddFrom(a, b, i, carry) ==
    IF i > Len(a) /\ i > Len(b) THEN (IF carry = 0 THEN <<>> ELSE <<carry>>)
    ELSE <<(Digit(a, i) + Digit(b, i) + carry) % Base>>
         \o AddFrom(a, b, i + 1, (Digit(a, i) + Digit(b, i) + carry) \div Base)

\* a - b for a >= b.
RECURSIVE SubFrom(_, _, _, _)
SubFrom(a, b, i, borrow) ==
    IF i > Len(a) THEN <<>>
    ELSE <<(a[i] - Digit(b, i) - borrow + Base) % Base>>
         \o SubFrom(a, b, i + 1, IF a[i] - Digit(b, i) - borrow < 0 THEN 1 ELSE 0)

\* a * c for 0 < c < 2^15.
RECURSIVE MulFrom(_, _, _, _)
MulFrom(a, c, i, carry) ==
    IF i > Len(a) THEN (IF carry = 0 THEN <<>> ELSE <<carry>>)
    ELSE <<(a[i] * c + carry) % Base>>
         \o MulFrom(a, c, i + 1, (a[i] * c + carry) \div Base)

\* a * 2^k
ShiftLeft(a, k) ==
    IF a = <<>> THEN <<>>
    ELSE [i \in 1..(k \div 15) |-> 0] \o MulFrom(a, 2^(k % 15), 1, 0)

\* a \div 2
Half(a) ==
    Strip([i \in 1..Len(a) |->
              a[i] \div 2 + (IF i < Len(a) THEN (a[i + 1] % 2) * (Base \div 2) ELSE 0)])

\* The largest c among qhat - 2, qhat - 1 and qhat with c * t <= r.
DigitAtMost(r, t, qhat) ==
    CHOOSE c \in {x \in (qhat - 2)..qhat : x >= 0} :
        /\ c = 0 \/ Cmp(MulFrom(t, c, 1, 0), r) <= 0
        /\ c = qhat \/ Cmp(MulFrom(t, c + 1, 1, 0), r) > 0

\* The quotient digit of r by t, for 0 <= r < t * Base and the highest digit
\* of t at least Base / 2: the estimate from the two highest digits of r
\* exceeds it by at most 2.
QuotientDigit(r, t) ==
    LET top2 == Digit(r, Len(t) + 1) * Base + Digit(r, Len(t))
        qhat == IF top2 \div t[Len(t)] >= Base THEN Base - 1 ELSE top2 \div t[Len(t)]
    IN  DigitAtMost(r, t, qhat)

\* Long division of r by d in base 2^15, digits i down to 1 of the quotient
\* (r < d * Base^i, the highest digit of d at least Base / 2).
RECURSIVE DivDigits(_, _, _)
DivWith(r, d, i, t, c) ==
    [DivDigits(IF c = 0 THEN r ELSE Strip(SubFrom(r, MulFrom(t, c, 1, 0), 1, 0)),
               d, i - 1) EXCEPT !.q = @ \o <<c>>]

DivAt(r, d, i, t) == DivWith(r, d, i, t, QuotientDigit(r, t))

DivDigits(r, d, i) ==
    IF i = 0 THEN [q |-> <<>>, r |-> r]
    ELSE DivAt(r, d, i, [j \in 1..(i - 1) |-> 0] \o d)

\* A Number: the value m * 2^e, m a natural number of at most 54 binary digits.
Num(m, e) == [m |-> m, e |-> e]

\* q has 54 or 55 binary digits and stands, with a remainder that is zero or
\* not (exact), for a value in units of 2^e: the value rounded to 53 digits.
RoundTo53(q, exact, e) ==
    IF BitLen(q) = 54
    THEN LET m == Half(q)
             up == q[1] % 2 = 1 /\ (~exact \/ m[1] % 2 = 1)
         IN  Num(IF up THEN AddFrom(m, <<1>>, 1, 0) ELSE m, e + 1)
    ELSE LET m == Half(Half(q))
             up == \/ q[1] % 4 = 3
                   \/ q[1] % 4 = 2 /\ (~exact \/ m[1] % 2 = 1)
         IN  Num(IF up THEN AddFrom(m, <<1>>, 1, 0) ELSE m, e + 2)

\* Division of a by a one-digit d, digits i down to 1 of a, rem the remainder
\* of the digits above.
RECURSIVE ShortDiv(_, _, _, _)
ShortDiv(a, d, i, rem) ==
    IF i = 0 THEN [q |-> <<>>, r |-> IF rem = 0 THEN <<>> ELSE <<rem>>]
    ELSE [ShortDiv(a, d, i - 1, (rem * Base + a[i]) % d) EXCEPT
              !.q = @ \o <<(rem * Base + a[i]) \div d>>]

\* The quotient (below 2^60) and the remainder of n by d; for the long
\* division both are scaled to bring d to whole digits, which leaves the
\* quotient as it is and the remainder zero or not.
Divide(n, d, norm) ==
    IF Len(d) = 1 THEN ShortDiv(n, d[1], Len(n), 0)
    ELSE DivDigits(ShiftLeft(n, norm), ShiftLeft(d, norm), 4)

\* n / d, a quotient of 54 or 55 binary digits in units of 2^e, rounded.
RoundQuotient(n, d, e) ==
    CHOOSE x \in {RoundTo53(Strip(qr.q), qr.r = <<>>, e) :
                      qr \in {Divide(n, d, (15 - (BitLen(d) % 15)) % 15)}} : TRUE

\* The Number nearest to (n / d) * 2^e, for natural numbers n and d > 0: the
\* quotient is scaled by 2^s to 54 or 55 binary digits.
Fl(n, d, e) ==
    IF n = <<>> THEN Num(<<>>, 0)
    ELSE LET s == 54 - (BitLen(n) - BitLen(d))
         IN  RoundQuotient(IF s >= 0 THEN ShiftLeft(n, s) ELSE n,
                           IF s >= 0 THEN d ELSE ShiftLeft(d, -s), e - s)

\* The Number a numeric literal n / d (as 0.299 = 299 / 1000) or an integer is.
FlOfRatio(n, d) == Fl(NatOf(n), NatOf(d), 0)
FlOfInt(n) == Num(NatOf(n), 0)

MinExp(x, y) == IF x.e < y.e THEN x.e ELSE y.e

\* x + y, x - y (for x >= y), x * n (n a small integer), x / y
FlAdd(x, y) ==
    Fl(AddFrom(ShiftLeft(x.m, x.e - MinExp(x, y)), ShiftLeft(y.m, y.e - MinExp(x, y)),
               1, 0),
       <<1>>, MinExp(x, y))
FlSub(x, y) ==
    Fl(Strip(SubFrom(ShiftLeft(x.m, x.e - MinExp(x, y)),
                     ShiftLeft(y.m, y.e - MinExp(x, y)), 1, 0)),
       <<1>>, MinExp(x, y))
FlMulInt(x, n) == IF n = 0 THEN Num(<<>>, 0) ELSE Fl(MulFrom(x.m, n, 1, 0), <<1>>, x.e)
FlDiv(x, y) == Fl(x.m, y.m, x.e - y.e)

\* x < y
FlLess(x, y) ==
    Cmp(ShiftLeft(x.m, x.e - MinExp(x, y)), ShiftLeft(y.m, y.e - MinExp(x, y))) < 0

\* Math.floor in place of Math.round.
MathFloor(x) ==
    LET DivPow2(a, k) == Strip(Divide(a, ShiftLeft(<<1>>, k), (15 - ((k + 1) % 15)) % 15).q)
        IntOf(a) == Digit(a, 1) + Base * Digit(a, 2)
    IN  IF x.e >= 0 THEN IntOf(ShiftLeft(x.m, x.e)) ELSE IntOf(DivPow2(x.m, -x.e))

\* Math.round of a Number below 2^30, the integer floor(x + 1/2).  DivPow2 is
\* the quotient of a by 2^k, IntOf the integer the digits a stand for.
MathRound(x) ==
    LET DivPow2(a, k) == Strip(Divide(a, ShiftLeft(<<1>>, k), (15 - ((k + 1) % 15)) % 15).q)
        IntOf(a) == Digit(a, 1) + Base * Digit(a, 2)
    IN  IF x.e >= 0 THEN IntOf(ShiftLeft(x.m, x.e))
        ELSE IntOf(DivPow2(AddFrom(x.m, ShiftLeft(<<1>>, -x.e - 1), 1, 0), -x.e))

\* ------------------------------------------------------------------------
\* color-utils.js: classification, extraction, selection
\* ------------------------------------------------------------------------

\* The size of the canvas createDownscaledCanvas makes for an image.  Scaled
\* is Math.round of side *= maxDimension / other: the side times the rounded
\* quotient, rounded.
createDownscaledCanvas(image, maxDimension) ==
    LET Scaled(side, other) ==
            MathRound(FlMulInt(FlDiv(FlOfInt(maxDimension), FlOfInt(other)), side))
    IN  IF image.width > image.height
        THEN IF image.width > maxDimension
             THEN [width |-> maxDimension, height |-> Scaled(image.height, image.width)]
             ELSE [width |-> image.width, height |-> image.height]
        ELSE IF image.height > maxDimension
             THEN [width |-> Scaled(image.width, image.height), height |-> maxDimension]
             ELSE [width |-> image.width, height |-> image.height]

\* A swatch: the RGB triple, and the population when the object has a
\* getPopulation method (the Color Thief mock swatches have none).
Swatch(rgb, pop) == [rgb |-> rgb, hasPop |-> TRUE, pop |-> pop]
MockSwatch(rgb) == [rgb |-> rgb, hasPop |-> FALSE, pop |-> 0]

\* A SwatchSet is a function from the categories it holds to their swatch.
EmptySwatches == [n \in {} |-> MockSwatch(<<0, 0, 0>>)]

\* rgbToHsl, saturation and lightness in percent (the hue is not used by any
\* caller).  Division by 255 is monotone, so Math.max and Math.min of the
\* three quotients are the quotients of the greatest and least channel.
HslOf(max, min, l, d) ==
    LET s == IF max = min THEN Num(<<>>, 0)
             ELSE IF FlLess(FlOfRatio(1, 2), l)
                  THEN FlDiv(d, FlSub(FlSub(FlOfInt(2), max), min))
                  ELSE FlDiv(d, FlAdd(max, min))
    IN  [s |-> FlMulInt(s, 100), l |-> FlMulInt(l, 100)]

MaxMinToHsl(max, min) ==
    HslOf(max, min, FlDiv(FlAdd(max, min), FlOfInt(2)), FlSub(max, min))

rgbToHsl(r, g, b) ==
    MaxMinToHsl(FlDiv(FlOfInt(Max3(r, g, b)), FlOfInt(255)),
                FlDiv(FlOfInt(Min3(r, g, b)), FlOfInt(255)))

\* The classification a saturation and a lightness in percent give.
ClassOf(saturation, lightness) ==
    LET isVibrant == FlLess(FlOfInt(40), saturation)
        vibrancyType == IF isVibrant THEN "Vibrant" ELSE "Muted"
        lightnessType == IF FlLess(lightness, FlOfInt(40)) THEN "Dark"
                         ELSE IF FlLess(FlOfInt(60), lightness) THEN "Light"
                         ELSE ""
    IN  lightnessType \o vibrancyType

classifyColor(r, g, b) ==
    CHOOSE c \in {ClassOf(hsl.s, hsl.l) : hsl \in {rgbToHsl(r, g, b)}} : TRUE

\* The loop of getColorThiefSwatches over the palette: the first colour of a
\* category fills it.
RECURSIVE ClassifyPalette(_, _)
ClassifiedLast(classifiedSwatches, color, classification) ==
    [n \in DOMAIN classifiedSwatches \cup {classification} |->
        IF n = classification THEN MockSwatch(color) ELSE classifiedSwatches[n]]

Classified(classifiedSwatches, color, classification) ==
    IF classification \notin DOMAIN classifiedSwatches
    THEN [n \in DOMAIN classifiedSwatches \cup {classification} |->
             IF n = classification THEN MockSwatch(color)
             ELSE classifiedSwatches[n]]
    ELSE classifiedSwatches

ClassifyPalette(palette, classifiedSwatches) ==
    IF palette = <<>> THEN classifiedSwatches
    ELSE ClassifyPalette(Tail(palette),
             Classified(classifiedSwatches, Head(palette),
                        classifyColor(Head(palette)[1], Head(palette)[2],
                                      Head(palette)[3])))

\* getColorThiefSwatches: an empty (or null) palette throws.
getColorThiefSwatches(palette) ==
    IF palette = <<>> THEN [ok |-> FALSE, swatches |-> EmptySwatches]
    ELSE [ok |-> TRUE, swatches |-> ClassifyPalette(palette, EmptySwatches)]

MergeFallbackFirst(swatches, colorThiefSwatches) ==
    [n \in DOMAIN swatches \cup
           (Range(requiredSwatches) \cap DOMAIN colorThiefSwatches) |->
        IF n \in DOMAIN colorThiefSwatches THEN colorThiefSwatches[n] ELSE swatches[n]]

\* The merge of getSwatchesFromImage: the primary swatches, and for every
\* required category they lack, the fallback's swatch when it has one.
MergeSwatches(swatches, colorThiefSwatches) ==
    [n \in DOMAIN swatches \cup
           (Range(requiredSwatches) \cap DOMAIN colorThiefSwatches) |->
        IF n \in DOMAIN swatches THEN swatches[n] ELSE colorThiefSwatches[n]]

\* What an image holds for the two extractors: whether Vibrant throws on it,
\* the swatches Vibrant finds, and the palette Color Thief returns (<<>> for
\* null, false or an empty array).
ImageContent(vibrantThrows, primary, palette) ==
    [vibrantThrows |-> vibrantThrows, primary |-> primary, palette |-> palette]

ExtractOrFail(content) ==
    IF content.vibrantThrows \/ content.palette = <<>>
    THEN [ok |-> FALSE, swatches |-> EmptySwatches, thiefCalls |-> 0]
    ELSE [ok |-> TRUE,
          swatches |-> MergeSwatches(content.primary,
                                     getColorThiefSwatches(content.palette).swatches),
          thiefCalls |-> 1]

\* The fallback extractor called whatever the primary extractor found.
ExtractWithFallback(content) ==
    IF content.vibrantThrows
    THEN [ok |-> FALSE, swatches |-> EmptySwatches, thiefCalls |-> 0]
    ELSE CHOOSE out \in
             {IF thief.ok
              THEN [ok |-> TRUE, swatches |-> MergeSwatches(content.primary, thief.swatches),
                    thiefCalls |-> 1]
              ELSE [ok |-> TRUE, swatches |-> content.primary, thiefCalls |-> 1] :
                 thief \in {getColorThiefSwatches(content.palette)}} : TRUE

\* The try block of processPromise up to the cache insert: the outcome of the
\* extraction, a SwatchSet or the primary extractor's exception, and
\* thiefCalls, the calls of getColorThiefSwatches it made.
Extract(content) ==
    IF content.vibrantThrows
    THEN [ok |-> FALSE, swatches |-> EmptySwatches, thiefCalls |-> 0]
    ELSE LET swatches == content.primary
             isMissingSwatches ==
                 \E i \in 1..Len(requiredSwatches) : requiredSwatches[i] \notin DOMAIN swatches
         IN  IF isMissingSwatches
             THEN CHOOSE out \in
                      {IF thief.ok
                       THEN [ok |-> TRUE, swatches |-> MergeSwatches(swatches, thief.swatches),
                             thiefCalls |-> 1]
                       ELSE [ok |-> TRUE, swatches |-> swatches, thiefCalls |-> 1] :
                          thief \in {getColorThiefSwatches(content.palette)}} : TRUE
             ELSE [ok |-> TRUE, swatches |-> swatches, thiefCalls |-> 0]

\* isColorQualityGood: the luminance and the saturation (max - min) / max as
\* the code computes them; <<>> stands for a missing RGB.
Luminance(rgb) ==
    FlDiv(FlAdd(FlAdd(FlMulInt(FlOfRatio(299, 1000), rgb[1]),
                      FlMulInt(FlOfRatio(587, 1000), rgb[2])),
                FlMulInt(FlOfRatio(114, 1000), rgb[3])),
          FlOfInt(255))

MaxMinSaturation(max, min) ==
    IF max.m = <<>> THEN Num(<<>>, 0) ELSE FlDiv(FlSub(max, min), max)

QualitySaturation(rgb) ==
    MaxMinSaturation(FlDiv(FlOfInt(Max3(rgb[1], rgb[2], rgb[3])), FlOfInt(255)),
                     FlDiv(FlOfInt(Min3(rgb[1], rgb[2], rgb[3])), FlOfInt(255)))

QualityTest(rgb) ==
    /\ rgb # <<>>
    /\ \A luminance \in {Luminance(rgb)} :
           ~(FlLess(luminance, FlOfRatio(15, 100)) \/ FlLess(FlOfRatio(95, 100), luminance))
    /\ ~FlLess(QualitySaturation(rgb), FlOfRatio(2, 10))

\* The colour Vibrant finds in the avatars of the sessions, and the outcome of
\* the test on it: the test is a function of the colour alone, and is
\* evaluated once for this colour.
GoodRed == <<200, 40, 40>>
QualityOfGoodRed == QualityTest(GoodRed)

isColorQualityGood(rgb) == IF rgb = GoodRed THEN QualityOfGoodRed ELSE QualityTest(rgb)

RECURSIVE SumOver(_, _, _)
SumOver(swatches, names, ch) ==
    IF names = {} THEN 0
    ELSE LET n == CHOOSE x \in names : TRUE
             w == IF swatches[n].hasPop THEN swatches[n].pop ELSE 1
         IN  (IF ch = 0 THEN w ELSE swatches[n].rgb[ch] * w)
             + SumOver(swatches, names \ {n}, ch)

AverageOrBlack(swatches) == <<0, 0, 0>>

\* getAverageColorFromSwatches: <<>> stands for null.
getAverageColorFromSwatches(swatches) ==
    IF DOMAIN swatches = {} THEN <<>>
    ELSE LET total == SumOver(swatches, DOMAIN swatches, 0)
             totalPopulation == IF total = 0 THEN 1 ELSE total
         IN  << RoundDiv(SumOver(swatches, DOMAIN swatches, 1), totalPopulation),
                RoundDiv(SumOver(swatches, DOMAIN swatches, 2), totalPopulation),
                RoundDiv(SumOver(swatches, DOMAIN swatches, 3), totalPopulation) >>

\* The selection of getSmartAvatarColor: the first swatch in priority order
\* that is present and of good quality, else the average; <<>> for null.
swatchPriority ==
    <<"Vibrant", "DarkVibrant", "LightVibrant", "Muted", "DarkMuted", "LightMuted">>

LastOf(swatches, good) ==
    IF good # {}
    THEN swatches[swatchPriority[CHOOSE i \in good : \A j \in good : i >= j]].rgb
    ELSE getAverageColorFromSwatches(swatches)

FirstOf(swatches, good) ==
    IF good # {}
    THEN swatches[swatchPriority[CHOOSE i \in good : \A j \in good : i <= j]].rgb
    ELSE getAverageColorFromSwatches(swatches)

SelectColor(swatches) ==
    FirstOf(swatches, {i \in 1..Len(swatchPriority) :
                          /\ swatchPriority[i] \in DOMAIN swatches
                          /\ isColorQualityGood(swatches[swatchPriority[i]].rgb)})

\* The tail of processPromise's try block: swatchCache.set and the size limit.
\* swatchCache is a Map: a sequence of <<key, value>> in insertion order; set on
\* a key it holds replaces the value in place.
MapHas(map, key) == \E i \in 1..Len(map) : map[i][1] = key
MapGet(map, key) == map[CHOOSE i \in 1..Len(map) : map[i][1] = key][2]
MapSet(map, key, value) ==
    IF MapHas(map, key)
    THEN [i \in 1..Len(map) |-> IF map[i][1] = key THEN <<key, value>> ELSE map[i]]
    ELSE Append(map, <<key, value>>)
MapKeys(map) == [i \in 1..Len(map) |-> map[i][1]]

\* swatchCache.set with no limit on the size.
StoreUnlimited(cache, cacheKey, swatches) == MapSet(cache, cacheKey, swatches)

StoreSwatches(cache, cacheKey, swatches) ==
    LET set == MapSet(cache, cacheKey, swatches)
    IN  IF Len(set) > MaxSwatchCacheSize THEN Tail(set) ELSE set

\* ------------------------------------------------------------------------
\* index.js: characters, settings, the final-colour cache
\* ------------------------------------------------------------------------

AVATAR_SMART == "avatar_smart"
CHAR_COLOR_OVERRIDE == "char_color_override"
STATIC_COLOR == "static_color"
DISABLED == "disabled"
ColorizeSourceType == {AVATAR_SMART, CHAR_COLOR_OVERRIDE, STATIC_COLOR, DISABLED}

DEFAULT_STATIC_DIALOGUE_COLOR_HEX == "#e18a24"

defaultCharColorSettings ==
    [colorizeSource |-> AVATAR_SMART,
     staticColor |-> DEFAULT_STATIC_DIALOGUE_COLOR_HEX,
     colorOverrides |-> [n \in {} |-> ""],
     boostVibrancy |-> FALSE]

\* An STCharacter: its type and avatar name; its uid is "<type>|<avatar name>".
STChar(type, avatarName) == [type |-> type, avatarName |-> avatarName]
uid(stChar) == stChar.type \o "|" \o stChar.avatarName

\* The src of the image getAvatarImageThumbnail returns for a character.
AvatarSrc(stChar) == "/thumbnail?type=" \o stChar.type \o "&file=" \o stChar.avatarName

\* The characters and personas calls are made for: two characters, the avatar
\* name of the second extending the first's by "|B", and a persona.
ActiveChars ==
    {STChar(CHARACTER, "A"), STChar(CHARACTER, "A|B"), STChar(PERSONA, "A")}

\* An ExColor, or null.  gen is not part of the program's value: it records
\* which generation of its character's data the call that made the colour
\* started from (see gen below).
NullColor == [from |-> "null", rgb |-> <<>>, hex |-> "", enh |-> <<>>, gen |-> 0]
FromRgb(rgb, enh, g) == [from |-> "rgb", rgb |-> rgb, hex |-> "", enh |-> enh, gen |-> g]
FromDefaultHex(hex, g) ==
    [from |-> "hex", rgb |-> <<>>, hex |-> DEFAULT_STATIC_DIALOGUE_COLOR_HEX, enh |-> <<>>,
     gen |-> g]
\* No colour for any hex string.
FromNoHex(hex, g) == NullColor
FromHex(hex, g) == [from |-> "hex", rgb |-> <<>>, hex |-> hex, enh |-> <<>>, gen |-> g]

nLumInclusive(l, isLight) ==
    IF isLight
    THEN LET darkened == IF l >= 600 THEN 450 ELSE IF l >= 400 THEN 400 ELSE l
         IN  IF darkened <= 200 THEN 250 ELSE darkened
    ELSE IF l <= 500 THEN 650 ELSE IF l <= 700 THEN 700 ELSE IF l >= 850 THEN 800 ELSE l

\* The light theme without the second test of its lightness.
nLumDarkenOnly(l, isLight) ==
    IF isLight
    THEN IF l > 600 THEN 450 ELSE IF l > 400 THEN 400 ELSE l
    ELSE IF l < 500 THEN 650 ELSE IF l < 700 THEN 700 ELSE IF l > 850 THEN 800 ELSE l

\* The dark theme without the test that tones down very bright colours.
nLumKeepBright(l, isLight) ==
    IF isLight
    THEN LET darkened == IF l > 600 THEN 450 ELSE IF l > 400 THEN 400 ELSE l
         IN  IF darkened < 200 THEN 250 ELSE darkened
    ELSE IF l < 500 THEN 650 ELSE IF l < 700 THEN 700 ELSE l

\* The lightness makeBetterContrast gives a colour of lightness l, both in
\* thousandths (0.65 is 650).
nLum(l, isLight) ==
    IF isLight
    THEN LET darkened == IF l > 600 THEN 450 ELSE IF l > 400 THEN 400 ELSE l
         IN  IF darkened < 200 THEN 250 ELSE darkened
    ELSE IF l < 500 THEN 650 ELSE IF l < 700 THEN 700 ELSE IF l > 850 THEN 800 ELSE l

\* The saturation floor raised by 0.2 instead of 0.3.
nSatRaisedLess(s, boostVibrancy) ==
    LET floored == IF s < 400 THEN (IF s + 200 < 800 THEN s + 200 ELSE 800) ELSE s
    IN  IF boostVibrancy
        THEN (IF floored + 350 > 1000 THEN 1000 ELSE IF floored + 350 < 0 THEN 0
              ELSE floored + 350)
        ELSE floored

\* The saturation makeBetterContrast gives a colour of saturation s, both in
\* thousandths: the floor, then Math.max(0, Math.min(1, nSat + 0.35)) when
\* boostVibrancy is set.
nSat(s, boostVibrancy) ==
    LET floored == IF s < 400 THEN (IF s + 300 < 800 THEN s + 300 ELSE 800) ELSE s
    IN  IF boostVibrancy
        THEN (IF floored + 350 > 1000 THEN 1000 ELSE IF floored + 350 < 0 THEN 0
              ELSE floored + 350)
        ELSE floored

\* The [nHue, nSat, nLum, a] makeBetterContrast hands to ExColor.hsl2rgb for
\* the [h, s, l, a] ExColor.rgb2hsl gave it.
BetterHsl(hsla, boostVibrancy, isLight) ==
    [h |-> hsla.h, s |-> nSat(hsla.s, boostVibrancy), l |-> nLum(hsla.l, isLight),
     a |-> hsla.a]

\* makeBetterContrast, kept symbolic here: the colour it is applied to and the
\* two flags it is applied with.
makeBetterContrast(rgb, boostVibrancy, isLight) ==
    [rgb |-> rgb, enh |-> <<boostVibrancy, isLight>>]

\* The cache key of getCharacterDialogueColor.
CacheKey(stChar, boostVibrancy, isLight) ==
    stChar.type \o "|" \o uid(stChar) \o "|"
        \o (IF boostVibrancy THEN "boosted" ELSE "normal") \o "|"
        \o (IF isLight THEN "light" ELSE "dark")

\* The final-colour cache as one value: avatarColorCache, a function from the
\* keys it holds to their colour, and cacheInsertionOrder.
ColorCache(cache, order) == [cache |-> cache, order |-> order]

Without(f, keys) == [k \in DOMAIN f \ keys |-> f[k]]
With(f, key, value) == [k \in DOMAIN f \cup {key} |-> IF k = key THEN value ELSE f[k]]

removeCacheEntry(cc, cacheKey) ==
    LET index == indexOf(cc.order, cacheKey)
    IN  ColorCache(Without(cc.cache, {cacheKey}),
                   IF index > 0 THEN RemoveAt(cc.order, index) ELSE cc.order)

entriesToRemove == (MAX_CACHE_SIZE * 2) \div 10

enforceCacheLimit(cc) ==
    IF Cardinality(DOMAIN cc.cache) > MAX_CACHE_SIZE
    THEN LET n == IF entriesToRemove < Len(cc.order) THEN entriesToRemove ELSE Len(cc.order)
         IN  ColorCache(Without(cc.cache, {cc.order[i] : i \in 1..n}),
                        SubSeq(cc.order, n + 1, Len(cc.order)))
    ELSE cc

\* An addToCache that adds nothing.
CacheUntouched(cc, key, value) == cc

addToCache(cc, key, value) ==
    enforceCacheLimit(ColorCache(With(cc.cache, key, value), Append(cc.order, key)))

\* removeCacheEntry for every key of keys, each a key of the cache: the keys
\* leave the cache, and each key's first occurrence leaves the order (indexOf
\* finds the first, and the removals of different keys do not interfere).
RemoveEntries(cc, keys) ==
    LET indexed == [i \in 1..Len(cc.order) |-> <<i, cc.order[i]>>]
        Stays(e) == ~(e[2] \in keys /\ \A j \in 1..(e[1] - 1) : cc.order[j] # e[2])
        kept == SelectSeq(indexed, Stays)
    IN  ColorCache(Without(cc.cache, keys), [i \in 1..Len(kept) |-> kept[i][2]])

ClearsEveryType(cc, charType) == ColorCache([k \in {} |-> NullColor], <<>>)

\* The loop of clearCacheForCharType over avatarColorCache.keys().
clearCacheForCharType(cc, charType) ==
    LET prefix == charType \o "|"
    IN  RemoveEntries(cc, {key \in DOMAIN cc.cache : startsWith(key, prefix)})

\* The loop of clearCacheForCharacter over avatarColorCache.keys().
clearCacheForCharacter(cc, stChar) ==
    LET prefix == stChar.type \o "|" \o uid(stChar) \o "|"
    IN  RemoveEntries(cc, {key \in DOMAIN cc.cache : startsWith(key, prefix)})

\* ------------------------------------------------------------------------
\* State
\* ------------------------------------------------------------------------

VARIABLES
    swatchCache,          \* color-utils.js: Map image src -> SwatchSet
    pendingSwatches,      \* color-utils.js: Map image src -> processPromise
    avatarColorCache,     \* index.js: cache key -> ExColor
    cacheInsertionOrder,  \* index.js: cache keys in insertion order
    extSettings,          \* index.js: character type -> its colour settings
    lightTheme,           \* what isLightTheme() returns
    calls,                \* the getCharacterDialogueColor calls, in starting order
    extractions,          \* history: image src -> runs of the primary extractor
    gen,                  \* history: character -> invalidations of its entries
    hot,                  \* history: the keys calls completed for and no eviction or
                          \* invalidation has removed since, each with the colour
                          \* the last call that completed for it returned
    events,               \* history: invalidations and setting changes
    styleSheets,          \* index.js: character type -> the rules of its style sheet
    updates,              \* the updateCharactersStyleSheet and updatePersonasStyleSheet
                          \* calls, in starting order
    timers,               \* index.js: debounced function -> its timeoutId, and the
                          \* timers it has set that are still to fire
    now,                  \* the time, in ticks
    scheduled,            \* history: the calls of debounced functions
    invoked,              \* history: the invocations of the functions they wrap
    input,                \* the argument of a function applied on its own
    output                \* its result, <<result>> once it has been applied

\* The style sheets and the debounce timers.
page == <<styleSheets, updates, timers, now, scheduled, invoked>>

state == <<swatchCache, pendingSwatches, avatarColorCache, cacheInsertionOrder,
           extSettings, lightTheme, calls, extractions, gen, hot, events, page>>

vars == <<state, input, output>>

Slots == DOMAIN calls

\* A settled processPromise: fulfilled with swatches, or rejected.  run tells
\* the runs of the primary extractor on one src apart.
Settled(ok, swatches, run) == [ok |-> ok, swatches |-> swatches, run |-> run]
NoResult == Settled(FALSE, EmptySwatches, 0)

IdleCall ==
    [pc |-> "idle", stChar |-> STChar(CHARACTER, ""), cacheKey |-> "", isLight |-> FALSE,
     gen0 |-> 0, res |-> NoResult, ret |-> NullColor, peers |-> {}]

InFlight(call) == call.pc \in {"waitImage", "gotSwatches"}

RunsOf(ext, src) == IF src \in DOMAIN ext THEN ext[src] ELSE 0
ExtractionsOf(src) == RunsOf(extractions, src)

\* ------------------------------------------------------------------------
\* getCharacterDialogueColor up to its first await (index.js 330-353)
\* ------------------------------------------------------------------------

\* w holds what a run of starts reads and writes: the colour cache cc, the
\* calls and hot; g is gen as it stands when the calls start.
World(cc, cs, h) == [cc |-> cc, calls |-> cs, hot |-> h]

\* addToCache, and hot kept to its meaning: the key joins with the colour, the
\* keys the overflow pass deletes leave.
AddTracked(w, key, value) ==
    LET cc2 == addToCache(w.cc, key, value)
        evicted == (DOMAIN w.cc.cache \cup {key}) \ DOMAIN cc2.cache
    IN  [w EXCEPT !.cc = cc2, !.hot = Without(With(w.hot, key, value), evicted)]

\* A cache check that finds no key.
NeverHit(cache, cacheKey) == FALSE

\* Whether the cache check of getCharacterDialogueColor finds the key.
CacheHit(cache, cacheKey) == cacheKey \in DOMAIN cache

\* Every source resolved like a static colour that is put in the cache.
StartCallCaching(w, g, stChar, avatarThrows) ==
    LET colorSettings == extSettings[stChar.type]
        cacheKey == CacheKey(stChar, colorSettings.boostVibrancy, lightTheme)
        exColor == FromHex(colorSettings.staticColor, g[stChar])
        call == [IdleCall EXCEPT !.stChar = stChar, !.gen0 = g[stChar], !.pc = "done",
                                 !.ret = exColor]
        v == AddTracked(w, cacheKey, exColor)
    IN  [v EXCEPT !.calls = Append(v.calls, call)]

\* getCharacterDialogueColor from its call to its first await or, when it has
\* none, to its return.
StartCall(w, g, stChar, avatarThrows) ==
    LET colorSettings == extSettings[stChar.type]
        colorizeSource ==
            IF stChar.avatarName \in DOMAIN colorSettings.colorOverrides
            THEN CHAR_COLOR_OVERRIDE ELSE colorSettings.colorizeSource
        isLight == lightTheme
        cacheKey == CacheKey(stChar, colorSettings.boostVibrancy, isLight)
        call == [IdleCall EXCEPT !.stChar = stChar, !.gen0 = g[stChar]]
        peers == {d \in DOMAIN w.calls : /\ w.calls[d].pc = "waitImage"
                                /\ AvatarSrc(w.calls[d].stChar) = AvatarSrc(stChar)}
        Done(ret) == [call EXCEPT !.pc = "done", !.ret = ret]
        Begin(v, cl) == [v EXCEPT !.calls = Append(v.calls, cl)]
    IN  CASE colorizeSource = AVATAR_SMART ->
               IF CacheHit(w.cc.cache, cacheKey)
               THEN Begin(w, [Done(w.cc.cache[cacheKey]) EXCEPT !.cacheKey = cacheKey,
                                                                !.isLight = isLight])
               ELSE IF avatarThrows
               THEN LET exColor == FromRgb(DEFAULT_STATIC_DIALOGUE_COLOR_RGB, <<>>, g[stChar])
                    IN  Begin(AddTracked(w, cacheKey, exColor),
                              [Done(exColor) EXCEPT !.cacheKey = cacheKey, !.isLight = isLight])
               ELSE Begin(w, [call EXCEPT !.pc = "waitImage", !.cacheKey = cacheKey,
                                          !.isLight = isLight, !.peers = peers])
          [] colorizeSource = STATIC_COLOR ->
               Begin(w, Done(FromHex(colorSettings.staticColor, g[stChar])))
          [] colorizeSource = CHAR_COLOR_OVERRIDE ->
               Begin(w, Done(IF /\ stChar.avatarName \in DOMAIN colorSettings.colorOverrides
                                /\ colorSettings.colorOverrides[stChar.avatarName] # ""
                             THEN FromHex(colorSettings.colorOverrides[stChar.avatarName],
                                          g[stChar])
                             ELSE NullColor))
          [] OTHER -> Begin(w, Done(NullColor))

\* updateCharactersStyleSheet / updatePersonasStyleSheet: the map over the list
\* starts one call per character, each running to its first await.  list[i]
\* is <<character, whether getAvatarImageThumbnail throws for it>>.
RECURSIVE StartAll(_, _, _)
StartAll(w, g, list) ==
    IF list = <<>> THEN w
    ELSE StartAll(StartCall(w, g, Head(list)[1], Head(list)[2]), g, Tail(list))

Injective(f) == \A i, j \in DOMAIN f : f[i][1] = f[j][1] => i = j

\* The lists a refresh may run over when n more calls may start.
RefreshLists(n) ==
    UNION {{l \in [1..k -> ActiveChars \X {FALSE}] : Injective(l)} : k \in 0..n}

CallsLeft == MaxStarts - Len(calls)

Here == World(ColorCache(avatarColorCache, cacheInsertionOrder), calls, hot)

Becomes(w) ==
    /\ avatarColorCache' = w.cc.cache
    /\ cacheInsertionOrder' = w.cc.order
    /\ calls' = w.calls
    /\ hot' = w.hot

\* No continuation of a call is queued as a microtask: the event loop can take
\* the next event (a handler below runs as one event).
Quiescent == \A c \in Slots : calls[c].pc # "gotSwatches"

\* ------------------------------------------------------------------------
\* Actions
\* ------------------------------------------------------------------------

\* The images the avatars may hold when an extraction runs.
ImageContents ==
    { \* Vibrant finds one category, and Color Thief returns no palette
      ImageContent(FALSE, [n \in {"Vibrant"} |-> Swatch(GoodRed, 10)], <<>>),
      \* Vibrant throws
      ImageContent(TRUE, EmptySwatches, <<>>) }

\* CHAT_CHANGED, APP_READY, the debounced settings refreshes and the theme
\* observer: updateCharactersStyleSheet and/or updatePersonasStyleSheet.
Refresh(list) ==
    /\ Quiescent
    /\ list # <<>>
    /\ Becomes(StartAll(Here, gen, list))
    /\ UNCHANGED <<page, input, output, swatchCache, pendingSwatches, extSettings, lightTheme,
                   extractions, gen, events>>

\* CHAR_CARD_CHANGED, PERSONA_CHANGED, PERSONA_ADDED, PERSONA_REMOVED:
\* clearCacheForCharacter, then the style sheet update of the character's type.
CharacterChanged(stChar, list) ==
    /\ Quiescent
    /\ events < MaxEvents
    /\ \A i \in 1..Len(list) : list[i][1].type = stChar.type
    /\ LET cc == clearCacheForCharacter(ColorCache(avatarColorCache, cacheInsertionOrder), stChar)
           g == [gen EXCEPT ![stChar] = @ + 1]
           cleared == DOMAIN avatarColorCache \ DOMAIN cc.cache
       IN  /\ Becomes(StartAll(World(cc, calls, Without(hot, cleared)), g, list))
           /\ gen' = g
    /\ events' = events + 1
    /\ UNCHANGED <<page, input, output, swatchCache, pendingSwatches, extSettings, lightTheme, extractions>>

\* The "Boost color vibrancy" checkbox of a character type: the setting, then
\* clearCacheForCharType.  The refresh the handler schedules is debounced: it
\* runs as a later event, a Refresh.
BoostVibrancyChanged(charType) ==
    /\ Quiescent
    /\ events < MaxEvents
    /\ extSettings' = [extSettings EXCEPT ![charType].boostVibrancy = ~@]
    /\ LET cc == clearCacheForCharType(ColorCache(avatarColorCache, cacheInsertionOrder), charType)
       IN  /\ avatarColorCache' = cc.cache
           /\ cacheInsertionOrder' = cc.order
           /\ hot' = Without(hot, DOMAIN avatarColorCache \ DOMAIN cc.cache)
    /\ gen' = [ch \in DOMAIN gen |-> IF ch.type = charType THEN gen[ch] + 1 ELSE gen[ch]]
    /\ events' = events + 1
    /\ UNCHANGED <<page, input, output, swatchCache, pendingSwatches, lightTheme, calls, extractions>>

\* The page's theme changes: isLightTheme() returns the other value.
ThemeChanged ==
    /\ Quiescent
    /\ events < MaxEvents
    /\ lightTheme' = ~lightTheme
    /\ events' = events + 1
    /\ UNCHANGED <<page, input, output, swatchCache, pendingSwatches, avatarColorCache, cacheInsertionOrder,
                   extSettings, calls, extractions, gen, hot>>

\* A lookup that finds nothing.
LookupNothing(cache, pending, cacheKey) == "miss"

\* What the key's lookup in getSwatchesFromImage finds: "cached" in
\* swatchCache, else "pending" in pendingSwatches, else "miss".
Lookup(cache, pending, cacheKey) ==
    IF MapHas(cache, cacheKey) THEN "cached"
    ELSE IF cacheKey \in DOMAIN pending THEN "pending"
    ELSE "miss"

\* processPromise and its registration.  The async function has no await: it
\* runs to its end, finally block included, when it is called, and only then
\* does pendingSwatches.set store the promise it returned.
Processed(cache, pending, cacheKey, out, run) ==
    LET cache2 == IF out.ok THEN StoreSwatches(cache, cacheKey, out.swatches) ELSE cache
        afterFinally == Without(pending, {cacheKey})
        promise == Settled(out.ok, out.swatches, run)
    IN  [cache |-> cache2, pending |-> With(afterFinally, cacheKey, promise),
         promise |-> promise, thiefCalls |-> out.thiefCalls]

RunProcess(cache, pending, cacheKey, content, run) ==
    Processed(cache, pending, cacheKey, Extract(content), run)

\* getSwatchesFromImage after waitForImage, on the two maps and the count of
\* extractions per src: the maps and the count it leaves, the promise res its
\* caller awaits, and the calls of getColorThiefSwatches it made.
getSwatchesFromImage(cache, pending, ext, cacheKey, content) ==
    LET found == Lookup(cache, pending, cacheKey)
        run == RunsOf(ext, cacheKey) + 1
        Same(res) ==
            [cache |-> cache, pending |-> pending, ext |-> ext, res |-> res, thiefCalls |-> 0]
    IN  CASE found = "cached" ->
               Same(Settled(TRUE, MapGet(cache, cacheKey), RunsOf(ext, cacheKey)))
          [] found = "pending" -> Same(pending[cacheKey])
          [] OTHER ->
               CHOOSE got \in
                   {[cache |-> p.cache, pending |-> p.pending,
                     ext |-> With(ext, cacheKey, run), res |-> p.promise,
                     thiefCalls |-> p.thiefCalls] :
                       p \in {RunProcess(cache, pending, cacheKey, content, run)}} : TRUE

\* The image of call c has loaded: waitForImage resolves, and
\* getSwatchesFromImage runs to its end.
ImageLoaded(c, content) ==
    /\ calls[c].pc = "waitImage"
    /\ \E got \in {getSwatchesFromImage(swatchCache, pendingSwatches, extractions,
                                         AvatarSrc(calls[c].stChar), content)} :
           /\ swatchCache' = got.cache
           /\ pendingSwatches' = got.pending
           /\ extractions' = got.ext
           /\ calls' = [calls EXCEPT ![c].pc = "gotSwatches", ![c].res = got.res]
    /\ UNCHANGED <<page, input, output, avatarColorCache, cacheInsertionOrder, extSettings, lightTheme,
                   gen, hot, events>>

\* No colour in place of the default colour.
EnhancedOrNull(colorRgb, boostVibrancy, isLight, g) ==
    IF colorRgb # <<>>
    THEN FromRgb(colorRgb, <<boostVibrancy, isLight>>, g)
    ELSE NullColor

\* The colour getCharacterDialogueColor makes of the outcome of
\* getSmartAvatarColor: the selected colour through makeBetterContrast, the
\* default colour for null and for a rejection.
Enhanced(colorRgb, boostVibrancy, isLight, g) ==
    IF colorRgb # <<>>
    THEN CHOOSE exColor \in
             {FromRgb(better.rgb, better.enh, g) :
                 better \in {makeBetterContrast(colorRgb, boostVibrancy, isLight)}} : TRUE
    ELSE FromRgb(DEFAULT_STATIC_DIALOGUE_COLOR_RGB, <<>>, g)

FinalColor(res, boostVibrancy, isLight, g) ==
    Enhanced(IF res.ok THEN SelectColor(res.swatches) ELSE <<>>,
             boostVibrancy, isLight, g)

\* getSmartAvatarColor and getCharacterDialogueColor after their awaits.
Finish(c) ==
    /\ calls[c].pc = "gotSwatches"
    /\ \E exColor \in {FinalColor(calls[c].res,
                                   extSettings[calls[c].stChar.type].boostVibrancy,
                                   calls[c].isLight, calls[c].gen0)} :
           Becomes([AddTracked(Here, calls[c].cacheKey, exColor) EXCEPT
                        !.calls[c].pc = "done", !.calls[c].ret = exColor])
    /\ UNCHANGED <<page, input, output, swatchCache, pendingSwatches, extSettings, lightTheme,
                   extractions, gen, events>>

Next ==
    \/ \E list \in RefreshLists(CallsLeft) : Refresh(list)
    \/ \E stChar \in ActiveChars : \E list \in RefreshLists(CallsLeft) :
           CharacterChanged(stChar, list)
    \/ \E charType \in CharacterType : BoostVibrancyChanged(charType)
    \/ ThemeChanged
    \/ \E c \in Slots : \E content \in ImageContents : ImageLoaded(c, content)
    \/ \E c \in Slots : Finish(c)

\* The functions debounce() has made: the three settings refreshes.
DebouncedFunctions ==
    {"scheduleCharacterSettingsRefresh", "schedulePersonaSettingsRefresh",
     "scheduleAllSettingsRefresh"}

\* The closure of a debounced function before its first call: timeoutId is
\* null (0), and the page holds no timer of it.
NoTimer == [timeoutId |-> 0, pending |-> {}]

\* The style sheets are empty, and no debounced function has been called.
PageConstructed ==
    /\ styleSheets = [t \in CharacterType |-> <<>>]
    /\ updates = <<>>
    /\ timers = [f \in DebouncedFunctions |-> NoTimer]
    /\ now = 0
    /\ scheduled = <<>>
    /\ invoked = <<>>

Constructed ==
    /\ swatchCache = <<>>
    /\ pendingSwatches = [k \in {} |-> NoResult]
    /\ avatarColorCache = [k \in {} |-> NullColor]
    /\ cacheInsertionOrder = <<>>
    /\ extSettings = [t \in CharacterType |-> defaultCharColorSettings]
    /\ lightTheme = FALSE
    /\ calls = <<>>
    /\ extractions = [k \in {} |-> 0]
    /\ gen = [ch \in ActiveChars |-> 0]
    /\ hot = [k \in {} |-> NullColor]
    /\ events = 0
    /\ PageConstructed

Init == Constructed /\ input = <<>> /\ output = <<>>

Spec == Init /\ [][Next]_vars

\* ------------------------------------------------------------------------
\* Image loads that never end
\* ------------------------------------------------------------------------

\* waitForImage has no timeout: the image of a call may never load.  Here the
\* images of one src may stay loading for ever; every other image loads in
\* the end, and a continuation that is queued runs.
HungSrc == AvatarSrc(STChar(CHARACTER, "A"))

SpecHung ==
    /\ Init
    /\ [][Next]_vars
    /\ \A c \in 1..MaxStarts :
           /\ WF_vars(\E content \in ImageContents :
                          /\ c \in Slots
                          /\ AvatarSrc(calls[c].stChar) # HungSrc
                          /\ ImageLoaded(c, content))
           /\ WF_vars(c \in Slots /\ Finish(c))

\* ------------------------------------------------------------------------
\* Full caches
\* ------------------------------------------------------------------------

\* The caches fill up over a session.  The specification SpecFull starts from
\* the state a session is in after calls for many characters have completed,
\* computed here with the operators above: the calls it then explores find the
\* caches at their limits.

\* The i-th character of the history.
FillerChar(i) == STChar(CHARACTER, "f" \o ToString(i))
FillerContent == ImageContent(FALSE, [n \in {"Vibrant"} |-> Swatch(GoodRed, 10)], <<>>)

Past(sc, pending, ext, cc) ==
    [swatchCache |-> sc, pendingSwatches |-> pending, extractions |-> ext, cc |-> cc]

NoPast ==
    Past(<<>>, [k \in {} |-> NoResult], [k \in {} |-> 0],
         ColorCache([k \in {} |-> NullColor], <<>>))

\* One call of getCharacterDialogueColor for stChar from start to end, alone,
\* with the default settings and the dark theme, the character's data in
\* generation g.
CompletedCall(past, stChar, g) ==
    LET cacheKey == CacheKey(stChar, FALSE, FALSE)
    IN  IF CacheHit(past.cc.cache, cacheKey) THEN past
        ELSE CHOOSE after \in
                 {Past(got.cache, got.pending, got.ext,
                       addToCache(past.cc, cacheKey, FinalColor(got.res, FALSE, FALSE, g))) :
                  got \in {getSwatchesFromImage(past.swatchCache, past.pendingSwatches,
                                                past.extractions, AvatarSrc(stChar),
                                                FillerContent)}} : TRUE

\* Two calls for stChar, the second started while the first awaited its image:
\* both missed the colour cache, both add their colour.
OverlappingCalls(past, stChar) ==
    [CompletedCall(past, stChar, 0) EXCEPT
        !.cc = addToCache(@, CacheKey(stChar, FALSE, FALSE),
                          @.cache[CacheKey(stChar, FALSE, FALSE)])]

\* CHAR_CARD_CHANGED for stChar while no chat is open.
ClearedFor(past, stChar) ==
    [past EXCEPT !.cc = clearCacheForCharacter(@, stChar)]

\* Calls for the characters i..n, one after the other: those for the first
\* half, and from the past x they leave, those for the second half.
RECURSIVE FilledFrom(_, _, _)
FilledFrom(past, i, n) ==
    IF i > n THEN past
    ELSE IF i = n THEN CompletedCall(past, FillerChar(i), 0)
    ELSE CHOOSE end \in {FilledFrom(x, (i + n) \div 2 + 1, n) :
                             x \in {FilledFrom(past, i, (i + n) \div 2)}} : TRUE

FirstChar == STChar(CHARACTER, "A")

\* Two overlapping calls and then a CHAR_CARD_CHANGED for each of n characters
\* "s1", "s2", ... that no later call is for.
RECURSIVE StaleFrom(_, _)
StaleFrom(past, n) ==
    IF n = 0 THEN past
    ELSE CHOOSE end \in
             {ClearedFor(OverlappingCalls(x, STChar(CHARACTER, "s" \o ToString(n))),
                         STChar(CHARACTER, "s" \o ToString(n))) :
                  x \in {StaleFrom(past, n - 1)}} : TRUE

\* The histories SpecFull starts from: n completed calls for n characters,
\* after nothing ("clean"), after two overlapping calls for FirstChar
\* ("twice"), after those and a CHAR_CARD_CHANGED for FirstChar ("stale"), or
\* after the like for entriesToRemove other characters ("orphans").
Histories == {"clean", "twice", "stale", "orphans"}

PastOf(history, n) ==
    CASE history = "clean" -> FilledFrom(NoPast, 1, n)
      [] history = "twice" -> FilledFrom(OverlappingCalls(NoPast, FirstChar), 1, n)
      [] history = "orphans" -> FilledFrom(StaleFrom(NoPast, entriesToRemove), 1, n)
      [] OTHER -> FilledFrom(ClearedFor(OverlappingCalls(NoPast, FirstChar), FirstChar), 1, n)

\* The state after a history that left the caches as past holds them; stale
\* tells whether FirstChar's data was invalidated in it.  Every key the colour
\* cache then holds was put there by a call that completed and returned the
\* colour the cache holds for it, and no removal of it has come since: hot is
\* the cache.
StartsAfter(history, stale) ==
    \E past \in {history} :
        /\ swatchCache = past.swatchCache
        /\ pendingSwatches = past.pendingSwatches
        /\ avatarColorCache = past.cc.cache
        /\ cacheInsertionOrder = past.cc.order
        /\ extSettings = [t \in CharacterType |-> defaultCharColorSettings]
        /\ lightTheme = FALSE
        /\ calls = <<>>
        /\ extractions = past.extractions
        /\ gen = [ch \in ActiveChars |-> IF stale /\ ch = FirstChar THEN 1 ELSE 0]
        /\ hot = past.cc.cache
        /\ events = 0
        /\ PageConstructed
        /\ input = <<>>
        /\ output = <<>>

InitFull ==
    \E history \in Histories : \E n \in (MAX_CACHE_SIZE - 1)..MAX_CACHE_SIZE :
        StartsAfter(PastOf(history, n), history = "stale")

SpecFull == InitFull /\ [][Next]_vars

\* ------------------------------------------------------------------------
\* One extraction: getSwatchesFromImage on a page that has extracted nothing
\* yet, for every image of a bounded set
\* ------------------------------------------------------------------------

MaxFallback == 2
MaxPalette == 3

SeqsUpTo(S, n) == UNION {[1..k -> S] : k \in 0..n}

\* The colours Color Thief finds: two that classify Vibrant, one DarkMuted and
\* one of lightness 60 %.
PaletteColors == {<<200, 40, 40>>, <<180, 60, 60>>, <<40, 40, 60>>, <<156, 150, 150>>}

\* The swatch Vibrant finds for the i-th required category: no two are alike,
\* and none is a swatch of Color Thief.
PrimarySwatch(i) == Swatch(<<10 * i, 20, 250>>, i)
PrimaryOf(names) ==
    [n \in names |-> PrimarySwatch(CHOOSE i \in 1..Len(requiredSwatches) : requiredSwatches[i] = n)]

\* What Vibrant finds: any of three categories, or all six.
Primaries ==
    {PrimaryOf(names) : names \in SUBSET {"Vibrant", "Muted", "DarkMuted"}
                                   \cup {Range(requiredSwatches)}}

ExtractInputs ==
    {ImageContent(FALSE, primary, palette) :
        primary \in Primaries, palette \in SeqsUpTo(PaletteColors, MaxFallback)}
    \cup {ImageContent(TRUE, EmptySwatches, <<>>)}

ImageSrc == AvatarSrc(STChar(CHARACTER, "A"))

\* The image has loaded: getSwatchesFromImage runs to its end on it.
Extraction ==
    /\ output = <<>>
    /\ \E got \in {getSwatchesFromImage(swatchCache, pendingSwatches, extractions,
                                         ImageSrc, input)} :
           /\ swatchCache' = got.cache
           /\ pendingSwatches' = got.pending
           /\ extractions' = got.ext
           /\ output' = <<got.res, got.thiefCalls>>
    /\ UNCHANGED <<avatarColorCache, cacheInsertionOrder, extSettings, lightTheme,
                   calls, gen, hot, events, page, input>>

InitExtract == Constructed /\ input \in ExtractInputs /\ output = <<>>

SpecExtract == InitExtract /\ [][Extraction]_vars

\* getColorThiefSwatches on its own, for every palette of a bounded set (<<>>
\* is the palette of a failed getPalette).
Classification ==
    /\ output = <<>>
    /\ output' = <<getColorThiefSwatches(input)>>
    /\ UNCHANGED <<state, input>>

InitThief == Constructed /\ input \in SeqsUpTo(PaletteColors, MaxPalette) /\ output = <<>>

SpecThief == InitThief /\ [][Classification]_vars

\* ------------------------------------------------------------------------
\* The colour functions, each applied once to every argument of a bounded set
\* ------------------------------------------------------------------------

MaxLightness == 1000
MaxSaturation == 1000

Call(fn, on) == [fn |-> fn, on |-> on]

\* Colours for classifyColor: among them lightness exactly 60 % (156 and 150)
\* and saturation exactly 40 % (133 and 57).
ClassifyLevels == {0, 57, 133, 150, 156, 255}

\* Colours for isColorQualityGood: a grid, the dark grey (10,10,10), the
\* red (128,64,64), a colour of saturation exactly 0.2, one of luminance
\* exactly 0.15, and a missing RGB.
QualityColors ==
    ({0, 64, 128, 255} \X {0, 64, 128, 255} \X {0, 64, 128, 255})
    \cup {<<10, 10, 10>>, <<128, 64, 64>>, <<65, 52, 52>>, <<12, 54, 26>>, <<>>}

\* The swatches a SwatchSet may hold for its i-th category: one of good
\* quality, or one of bad quality with a population, or with none (a swatch
\* of Color Thief).
GoodColors == << <<200, 40, 40>>, <<128, 64, 64>>, <<30, 60, 120>> >>
BadColors == << <<10, 10, 10>>, <<251, 251, 251>>, <<128, 120, 120>> >>
SelectCategories == <<"Vibrant", "Muted", "LightMuted">>
SwatchChoices(i) ==
    {Swatch(GoodColors[i], 5), MockSwatch(BadColors[i])}
    \cup {Swatch(BadColors[i], pop) : pop \in {0, 1, 3}}

SelectInputs ==
    {S \in UNION {[{SelectCategories[i] : i \in present} ->
                      UNION {SwatchChoices(i) : i \in 1..3}] : present \in SUBSET (1..3)} :
        \A i \in 1..3 : SelectCategories[i] \in DOMAIN S =>
                             S[SelectCategories[i]] \in SwatchChoices(i)}

\* Colours for makeBetterContrast, in thousandths (the hue in degrees): every
\* lightness at saturation 0.5, and every saturation at lightness 0.5.
ContrastColors ==
    {[h |-> h, s |-> sl[1], l |-> sl[2], a |-> a] :
        h \in {0, 240}, a \in {500, 1000},
        sl \in ({500} \X (0..MaxLightness)) \cup ((0..MaxSaturation) \X {500})}

\* Images for createDownscaledCanvas: every size up to MaxSide by MaxSide with
\* a maxDimension of 16, and sizes around 1024 and well above it with the
\* default.
MaxSide == 48
DownscaleInputs ==
    {[image |-> [width |-> w, height |-> h], maxDimension |-> 16] :
        w \in 1..MaxSide, h \in 1..MaxSide}
    \cup {[image |-> [width |-> w, height |-> h], maxDimension |-> 1024] :
             w, h \in {1, 2, 3, 9, 100, 683, 1023, 1024, 1025, 1365, 2047, 2048, 3000,
                        4096, 6144}}

ApplyDownscale ==
    /\ input.fn = "createDownscaledCanvas"
    /\ output = <<>>
    /\ output' = <<createDownscaledCanvas(input.on.image, input.on.maxDimension)>>
    /\ UNCHANGED <<state, input>>

ApplyClassify ==
    /\ input.fn = "classifyColor"
    /\ output = <<>>
    /\ output' = <<classifyColor(input.on[1], input.on[2], input.on[3])>>
    /\ UNCHANGED <<state, input>>

ApplyQuality ==
    /\ input.fn = "isColorQualityGood"
    /\ output = <<>>
    /\ output' = <<isColorQualityGood(input.on)>>
    /\ UNCHANGED <<state, input>>

\* getSmartAvatarColor after its await, on a SwatchSet, and what
\* getCharacterDialogueColor makes of the colour.
ApplySelect ==
    /\ input.fn = "getSmartAvatarColor"
    /\ output = <<>>
    /\ \E colorRgb \in {SelectColor(input.on)} :
           output' = <<[colorRgb |-> colorRgb,
                        exColor |-> Enhanced(colorRgb, FALSE, FALSE, 0)]>>
    /\ UNCHANGED <<state, input>>

\* makeBetterContrast between rgb2hsl and hsl2rgb.
ApplyContrast ==
    /\ input.fn = "makeBetterContrast"
    /\ output = <<>>
    /\ output' = <<BetterHsl(input.on.hsla, input.on.boostVibrancy, input.on.isLight)>>
    /\ UNCHANGED <<state, input>>

InitColor ==
    /\ Constructed
    /\ output = <<>>
    /\ \/ \E rgb \in ClassifyLevels \X ClassifyLevels \X ClassifyLevels :
              input = Call("classifyColor", rgb)
       \/ \E rgb \in QualityColors : input = Call("isColorQualityGood", rgb)
       \/ \E swatches \in SelectInputs : input = Call("getSmartAvatarColor", swatches)
       \/ \E hsla \in ContrastColors : \E boostVibrancy, isLight \in BOOLEAN :
              input = Call("makeBetterContrast",
                           [hsla |-> hsla, boostVibrancy |-> boostVibrancy,
                            isLight |-> isLight])
       \/ \E on \in DownscaleInputs : input = Call("createDownscaledCanvas", on)

NextColor ==
    ApplyClassify \/ ApplyQuality \/ ApplySelect \/ ApplyContrast \/ ApplyDownscale

SpecColor == InitColor /\ [][NextColor]_vars

\* ------------------------------------------------------------------------
\* The settings: the colour source, the static colour and the per-character
\* override, changed between calls of getCharacterDialogueColor
\* ------------------------------------------------------------------------

\* changes of the settings in one behaviour
MaxChanges == 2

\* String.prototype.trim, for texts whose only white space is " ".
trim(s) ==
    LET solid == {i \in 1..Len(s) : SubSeq(s, i, i) # " "}
    IN  IF solid = {} THEN ""
        ELSE SubSeq(s, CHOOSE i \in solid : \A j \in solid : i <= j,
                       CHOOSE i \in solid : \A j \in solid : i >= j)

\* ExColor.isValidHexString: 3 or 6 hex digits with an optional leading "#".
isValidHexString(hex) ==
    LET HexDigits ==
            {"0", "1", "2", "3", "4", "5", "6", "7", "8", "9",
             "a", "b", "c", "d", "e", "f", "A", "B", "C", "D", "E", "F"}
        digits == IF startsWith(hex, "#") THEN SubSeq(hex, 2, Len(hex)) ELSE hex
    IN  /\ Len(digits) \in {3, 6}
        /\ \A i \in 1..Len(digits) : SubSeq(digits, i, i) \in HexDigits

\* ExColor.getHexWithHash.
getHexWithHash(hex) == IF startsWith(hex, "#") THEN hex ELSE "#" \o hex

\* A validation that lets every text through.
TextOrDefault(textboxValue, defaultValue) ==
    IF trim(textboxValue) = "" THEN defaultValue ELSE getHexWithHash(trim(textboxValue))

getTextValidHexOrDefault(textboxValue, defaultValue) ==
    LET trimmed == trim(textboxValue)
    IN  IF ~isValidHexString(trimmed) THEN defaultValue ELSE getHexWithHash(trimmed)

\* The colour source dropdown of a character type.  The refresh the handler
\* schedules is debounced: it runs as a later event, a Refresh.
ColorSourceChanged(charType, value) ==
    /\ Quiescent
    /\ events < MaxChanges
    /\ value # extSettings[charType].colorizeSource
    /\ extSettings' = [extSettings EXCEPT ![charType].colorizeSource = value]
    /\ events' = events + 1
    /\ UNCHANGED <<page, input, output, swatchCache, pendingSwatches, avatarColorCache,
                   cacheInsertionOrder, lightTheme, calls, extractions, gen, hot>>

\* The static colour picker of a character type.
StaticColorChanged(charType, colorValue) ==
    /\ Quiescent
    /\ events < MaxChanges
    /\ colorValue # extSettings[charType].staticColor
    /\ extSettings' = [extSettings EXCEPT ![charType].staticColor = colorValue]
    /\ events' = events + 1
    /\ UNCHANGED <<page, input, output, swatchCache, pendingSwatches, avatarColorCache,
                   cacheInsertionOrder, lightTheme, calls, extractions, gen, hot>>

\* applyColorOverride for the character the override input belongs to.
applyColorOverride(stChar, colorValue) ==
    /\ extSettings' =
           [extSettings EXCEPT ![stChar.type].colorOverrides =
               IF colorValue # "" THEN With(@, stChar.avatarName, colorValue)
               ELSE Without(@, {stChar.avatarName})]
    /\ LET cc == clearCacheForCharacter(ColorCache(avatarColorCache, cacheInsertionOrder), stChar)
       IN  /\ avatarColorCache' = cc.cache
           /\ cacheInsertionOrder' = cc.order
           /\ hot' = Without(hot, DOMAIN avatarColorCache \ DOMAIN cc.cache)
    /\ gen' = [gen EXCEPT ![stChar] = @ + 1]

\* The focusout handler of the hex text input of stChar's colour override,
\* the input holding text.  input and output record the run: the text, and
\* what getTextValidHexOrDefault made of it.
OverrideFocusOut(stChar, text) ==
    /\ Quiescent
    /\ events < MaxChanges
    /\ input' = Call("focusout", [stChar |-> stChar, text |-> text, at |-> events])
    /\ \E validated \in {getTextValidHexOrDefault(text, "")} :
           /\ output' = <<validated>>
           /\ IF validated # "" THEN applyColorOverride(stChar, validated)
              ELSE IF text = "" THEN applyColorOverride(stChar, "")
              ELSE UNCHANGED <<extSettings, avatarColorCache, cacheInsertionOrder, hot, gen>>
    /\ events' = events + 1
    /\ UNCHANGED <<swatchCache, pendingSwatches, lightTheme, calls, extractions, page>>

\* The texts the override input may hold, and the colours of the pickers.
OverrideTexts == {"", "#abc", " a0B1c2 ", "#12345", "#a b", " "}
PickedColors == {DEFAULT_STATIC_DIALOGUE_COLOR_HEX, "#00ff00"}

\* The lists a refresh may run over: one call, for a character whose avatar
\* can be had or whose getAvatarImageThumbnail throws.
SettingsLists == {<<pair>> : pair \in ActiveChars \X BOOLEAN}

NextSettings ==
    \/ \E list \in SettingsLists : CallsLeft > 0 /\ Refresh(list)
    \/ \E c \in Slots : \E content \in ImageContents : ImageLoaded(c, content)
    \/ \E c \in Slots : Finish(c)
    \/ \E charType \in CharacterType : \E value \in ColorizeSourceType :
           ColorSourceChanged(charType, value)
    \/ \E charType \in CharacterType : \E colorValue \in PickedColors :
           StaticColorChanged(charType, colorValue)
    \/ \E stChar \in ActiveChars : \E text \in OverrideTexts : OverrideFocusOut(stChar, text)

SpecSettings == Init /\ [][NextSettings]_vars

\* ------------------------------------------------------------------------
\* The style sheets: updateCharactersStyleSheet and updatePersonasStyleSheet
\* calls that overlap
\* ------------------------------------------------------------------------

\* The call has all the colours it awaits (its Promise.all has fulfilled) and
\* has not yet written its style sheet.
Ready(update) ==
    /\ ~update.settled
    /\ \A c \in update.first..update.last : calls[c].pc = "done"

\* No update has its continuation queued as a microtask.
NoneReady == \A u \in DOMAIN updates : ~Ready(updates[u])

\* updateCharactersStyleSheet(list) or updatePersonasStyleSheet(list), to the
\* await of Promise.all: one getCharStyleString, and so one
\* getCharacterDialogueColor, per character of the list.
updateStyleSheet(charType, list) ==
    /\ Quiescent
    /\ NoneReady
    /\ list # <<>>
    /\ \A i \in DOMAIN list : list[i][1].type = charType
    /\ Becomes(StartAll(Here, gen, list))
    /\ updates' = Append(updates, [type |-> charType, first |-> Len(calls) + 1,
                                    last |-> Len(calls) + Len(list), settled |-> FALSE])
    /\ UNCHANGED <<swatchCache, pendingSwatches, extSettings, lightTheme, extractions, gen,
                   events, styleSheets, timers, now, scheduled, invoked, input, output>>

\* The rules an update makes of the colours it awaited: one per character
\* whose colour is not null, in the order of the list.
StylesOf(update) ==
    LET getCharStyleString(c) ==
            IF calls[c].ret = NullColor THEN <<>>
            ELSE <<[uid |-> uid(calls[c].stChar), color |-> calls[c].ret]>>
        RECURSIVE join(_)
        join(c) == IF c > update.last THEN <<>> ELSE getCharStyleString(c) \o join(c + 1)
    IN  join(update.first)

\* The continuation of update u after its await: the style sheet's innerHTML
\* is set.  Of the continuations that are queued, the one of the update that
\* started first runs first.
SheetWritten(u) ==
    /\ Ready(updates[u])
    /\ \A v \in 1..(u - 1) : ~Ready(updates[v])
    /\ styleSheets' = [styleSheets EXCEPT ![updates[u].type] = StylesOf(updates[u])]
    /\ updates' = [updates EXCEPT ![u].settled = TRUE]
    /\ UNCHANGED <<swatchCache, pendingSwatches, avatarColorCache, cacheInsertionOrder,
                   extSettings, lightTheme, calls, extractions, gen, hot, events, timers, now,
                   scheduled, invoked, input, output>>

\* The lists an update may run over: the character of a character chat, the
\* two of a group chat, or the personas.
SheetLists ==
    {<<<<stChar, FALSE>>>> : stChar \in ActiveChars}
    \cup {<<<<STChar(CHARACTER, "A"), FALSE>>, <<STChar(CHARACTER, "A|B"), FALSE>>>>}

\* An image loads, and a handler runs, when no continuation is queued.
NextSheet ==
    \/ \E charType \in CharacterType : \E list \in SheetLists :
           CallsLeft >= Len(list) /\ updateStyleSheet(charType, list)
    \/ \E c \in Slots : \E content \in ImageContents :
           Quiescent /\ NoneReady /\ ImageLoaded(c, content)
    \/ \E c \in Slots : Finish(c)
    \/ \E u \in DOMAIN updates : SheetWritten(u)

SpecSheet == Init /\ [][NextSheet]_vars

\* ------------------------------------------------------------------------
\* debounce: the three settings refreshes
\* ------------------------------------------------------------------------

\* calls of debounced functions in one behaviour, the ticks of one behaviour,
\* and the delay in ticks
MaxCalls == 3
MaxTime == 5
DelayTicks == 2

\* A timer setTimeout has set: its id, the time from which it may fire, and
\* the arguments its callback passes to fn.
Timer(id, due, args) == [id |-> id, due |-> due, args |-> args]

\* clearTimeout without effect.
clearNothing(pending, timeoutId) == pending

\* clearTimeout(timeoutId): the timer of that id, if it is still to fire, is
\* gone.
clearTimeout(pending, timeoutId) == {timer \in pending : timer.id # timeoutId}

\* A call debounced(...args) of the debounced function f.  The call is the
\* n-th of the behaviour and its arguments are <<n>>; the id setTimeout
\* returns is n.  scheduled records the call, and whether a timer of f was
\* still to fire when it came.
debounced(f, args) ==
    /\ Len(scheduled) < MaxCalls
    /\ now + DelayTicks <= MaxTime
    /\ args = <<Len(scheduled) + 1>>
    /\ \E cleared \in {IF timers[f].timeoutId # 0
                        THEN clearTimeout(timers[f].pending, timers[f].timeoutId)
                        ELSE timers[f].pending} :
           timers' = [timers EXCEPT ![f] =
                         [timeoutId |-> args[1],
                          pending |-> cleared \cup {Timer(args[1], now + DelayTicks, args)}]]
    /\ scheduled' = Append(scheduled, [fn |-> f, args |-> args, at |-> now,
                                        early |-> timers[f].pending # {}])
    /\ UNCHANGED <<swatchCache, pendingSwatches, avatarColorCache, cacheInsertionOrder,
                   extSettings, lightTheme, calls, extractions, gen, hot, events, styleSheets,
                   updates, now, invoked, input, output>>

\* The callback of a timer of f runs, no earlier than delay after the call
\* that set the timer: fn.apply(this, args).
TimerFires(f, timer) ==
    /\ timer \in timers[f].pending
    /\ now >= timer.due
    /\ invoked' = Append(invoked, [fn |-> f, args |-> timer.args, at |-> now])
    /\ timers' = [timers EXCEPT ![f].pending = @ \ {timer}]
    /\ UNCHANGED <<swatchCache, pendingSwatches, avatarColorCache, cacheInsertionOrder,
                   extSettings, lightTheme, calls, extractions, gen, hot, events, styleSheets,
                   updates, now, scheduled, input, output>>

\* Time passes.  A timer that is due need not have fired: setTimeout promises
\* no more than that the callback does not run before the delay is over.
Tick ==
    /\ now < MaxTime
    /\ now' = now + 1
    /\ UNCHANGED <<swatchCache, pendingSwatches, avatarColorCache, cacheInsertionOrder,
                   extSettings, lightTheme, calls, extractions, gen, hot, events, styleSheets,
                   updates, timers, scheduled, invoked, input, output>>

\* The timers a behaviour can hold.
Timers == {Timer(n, due, <<n>>) : n \in 1..MaxCalls, due \in 0..MaxTime}

NextDebounce ==
    \/ \E f \in DebouncedFunctions : \E n \in 1..MaxCalls : debounced(f, <<n>>)
    \/ \E f \in DebouncedFunctions : \E timer \in Timers : TimerFires(f, timer)
    \/ Tick

\* The page stays open: time passes, and a timer that may fire fires in the
\* end.
SpecDebounce ==
    /\ Init
    /\ [][NextDebounce]_vars
    /\ WF_vars(Tick)
    /\ \A f \in DebouncedFunctions : WF_vars(\E timer \in Timers : TimerFires(f, timer))

\* ------------------------------------------------------------------------
\* Claims
\* ------------------------------------------------------------------------

\* Call c has the outcome of its getSwatchesFromImage.
Got(c) == calls[c].res.run > 0

\* Calls c1 and c2 are for the same image src, and c2 started while c1
\* awaited its image: both were started before either had finished.
Concurrent(c1, c2) ==
    /\ c1 \in calls[c2].peers
    /\ Got(c1)
    /\ Got(c2)

\* C1: of two calls for the same image src that were both started before
\* either had finished, once both have their outcome, the primary extractor
\* has run once on that src and both have the same outcome, the same
\* SwatchSet of the same run.
C1_SharedExtraction ==
    \A c1, c2 \in Slots :
        Concurrent(c1, c2) =>
            /\ ExtractionsOf(AvatarSrc(calls[c1].stChar)) = 1
            /\ calls[c1].res = calls[c2].res

\* Two concurrent calls have both resolved to a SwatchSet.
C1_Witness ==
    \E c1, c2 \in Slots : Concurrent(c1, c2) /\ calls[c1].res.ok /\ calls[c2].res.ok

\* C2: pendingSwatches holds a key only while the extraction for it is still
\* running.  An extraction runs inside one step of getSwatchesFromImage (the
\* processPromise function has no await), so none is running in any state
\* between steps: the claim is that the map is empty in every state.
C2_PendingOnlyWhileRunning == DOMAIN pendingSwatches = {}

\* C3: getSmartAvatarColor never rejects because of an extraction failure:
\* every call that has the outcome of its getSwatchesFromImage, which
\* getSmartAvatarColor awaits with no catch, has a SwatchSet.
C3_NeverRejects == \A c \in Slots : Got(c) => calls[c].res.ok

\* C4: no call returns a stale colour: the colour a completed call returned
\* was made by a call that started in the generation of the character's data
\* the returning call started in, or a later one, never by a call from before
\* an invalidation that preceded the returning call.
C4_NoStaleColor ==
    \A c \in Slots : calls[c].pc = "done" => calls[c].ret.gen >= calls[c].gen0

\* C5: after a failed extraction for a src, the next call for the src starts a
\* new extraction: a call that started after an earlier call for the same src
\* had ended with a rejection does not get that call's rejection.
C5_NewExtractionAfterFailure ==
    \A c1, c2 \in Slots :
        (/\ c1 < c2
         /\ AvatarSrc(calls[c1].stChar) = AvatarSrc(calls[c2].stChar)
         /\ c1 \notin calls[c2].peers
         /\ Got(c1) /\ ~calls[c1].res.ok
         /\ Got(c2))
        => calls[c2].res.run > calls[c1].res.run

\* The step is the one in which call c gets the outcome of its
\* getSwatchesFromImage, or the one in which it adds its colour and returns.
LoadStep(c) == calls[c].pc = "waitImage" /\ calls'[c].pc = "gotSwatches"
FinishStep(c) == calls[c].pc = "gotSwatches" /\ calls'[c].pc = "done"

\* C6: swatchCache never holds more than 50 entries, and an insert into it
\* appends the new entry and removes nothing when it held fewer than 50,
\* and exactly its oldest entry when it held 50.
C6_SwatchCacheFifo ==
    /\ [](Len(swatchCache) <= 50)
    /\ [][\A c \in Slots :
             (LoadStep(c) /\ swatchCache' # swatchCache) =>
                 LET entry == <<AvatarSrc(calls[c].stChar), calls'[c].res.swatches>>
                 IN  swatchCache' = IF Len(swatchCache) < 50
                                    THEN Append(swatchCache, entry)
                                    ELSE Append(Tail(swatchCache), entry)]_vars

\* The swatches of FirstChar were inserted as a 51st key: swatchCache holds
\* them and 49 of the 50 entries it held before.
C6_Witness ==
    /\ Len(swatchCache) = 50
    /\ swatchCache[50][1] = AvatarSrc(FirstChar)
    /\ swatchCache[1][1] = AvatarSrc(FillerChar(MAX_CACHE_SIZE - 49))

\* C7: an addToCache that takes the final-colour cache over 100 entries
\* evicts exactly 20 of the entries the cache then holds.
C7_EvictsTwenty ==
    [][\A c \in Slots :
          LET held == DOMAIN avatarColorCache \cup {calls[c].cacheKey}
          IN  (FinishStep(c) /\ Cardinality(held) > 100) =>
                  Cardinality(held \ DOMAIN avatarColorCache') = 20]_vars

\* C8: an eviction an insert triggers removes neither the key just inserted
\* nor a key a call still in progress is for, in the final-colour cache and
\* in swatchCache.
C8_EvictionSparesCallers ==
    [][\A c \in Slots :
          /\ FinishStep(c) =>
                 /\ calls[c].cacheKey \in DOMAIN avatarColorCache'
                 /\ \A d \in Slots :
                        (InFlight(calls'[d]) /\ calls[d].cacheKey \in DOMAIN avatarColorCache)
                        => calls[d].cacheKey \in DOMAIN avatarColorCache'
          /\ (LoadStep(c) /\ swatchCache' # swatchCache) =>
                 /\ MapHas(swatchCache', AvatarSrc(calls[c].stChar))
                 /\ \A d \in Slots :
                        (InFlight(calls'[d]) /\ MapHas(swatchCache, AvatarSrc(calls[d].stChar)))
                        => MapHas(swatchCache', AvatarSrc(calls[d].stChar))]_vars

\* C9: a call that starts with a key an earlier call completed for, the key
\* neither evicted nor invalidated since, nor by the handler that starts the
\* call, returns at once the colour the earlier call returned: it does not
\* go on to getSmartAvatarColor.
C9_IdenticalInputsHit ==
    [][\A c \in (Len(calls) + 1)..Len(calls') :
          calls'[c].cacheKey \in DOMAIN hot \cap DOMAIN hot' =>
              /\ calls'[c].pc = "done"
              /\ calls'[c].ret = hot[calls'[c].cacheKey]]_vars

\* A call went through getSmartAvatarColor and completed, and a later call
\* with the same key returned its colour without an outcome of its own.
C9_Witness ==
    \E c0, c \in Slots :
        /\ c0 < c
        /\ calls[c0].cacheKey = calls[c].cacheKey
        /\ calls[c0].pc = "done" /\ Got(c0)
        /\ calls[c].pc = "done" /\ ~Got(c)
        /\ calls[c].ret = calls[c0].ret

\* The keys of character ch: one for every boost setting and theme.
KeysOf(ch) == {CacheKey(ch, boost, isLight) : boost \in BOOLEAN, isLight \in BOOLEAN}

\* C10: the handler of a change of character ch, which runs
\* clearCacheForCharacter(ch), removes every key of ch from the final-colour
\* cache and leaves every other entry as it was.
C10_ClearsOnlyCharacter ==
    [][\A ch \in ActiveChars :
          (extSettings' = extSettings /\ gen' = [gen EXCEPT ![ch] = @ + 1]) =>
              \A key \in DOMAIN avatarColorCache :
                  IF key \in KeysOf(ch) THEN key \notin DOMAIN avatarColorCache'
                  ELSE /\ key \in DOMAIN avatarColorCache'
                       /\ avatarColorCache'[key] = avatarColorCache[key]]_vars

\* C11: the handler of the boost-vibrancy checkbox of character type t, which
\* runs clearCacheForCharType(t), removes every final-colour cache entry of
\* the characters of type t and leaves every entry of the other type as it
\* was.
C11_ClearsOnlyCharType ==
    [][\A t \in CharacterType :
          extSettings'[t].boostVibrancy # extSettings[t].boostVibrancy =>
              \A ch \in ActiveChars : \A key \in KeysOf(ch) \cap DOMAIN avatarColorCache :
                  IF ch.type = t THEN key \notin DOMAIN avatarColorCache'
                  ELSE /\ key \in DOMAIN avatarColorCache'
                       /\ avatarColorCache'[key] = avatarColorCache[key]]_vars

\* The character setting has been toggled: an entry a call had made for a
\* character is gone, and an entry of a persona is still there.
C11_Witness ==
    /\ extSettings[CHARACTER].boostVibrancy
    /\ \E c \in Slots :
           /\ calls[c].pc = "done"
           /\ calls[c].stChar.type = CHARACTER
           /\ calls[c].cacheKey \notin DOMAIN avatarColorCache
    /\ \E ch \in ActiveChars :
           ch.type = PERSONA /\ KeysOf(ch) \cap DOMAIN avatarColorCache # {}

\* The fallback extractor has run and succeeded on the image.
Merged == output # <<>> /\ ~input.vibrantThrows /\ input.palette # <<>>

\* C12: the merged SwatchSet has, for each of the six required categories,
\* the primary's swatch when the primary has one, otherwise the fallback's
\* when the fallback has one, otherwise none.
C12_MergePolicy ==
    Merged =>
        \A F \in {getColorThiefSwatches(input.palette).swatches} :
            \A n \in Range(requiredSwatches) :
                IF n \in DOMAIN input.primary
                THEN /\ n \in DOMAIN output[1].swatches
                     /\ output[1].swatches[n] = input.primary[n]
                ELSE IF n \in DOMAIN F
                     THEN /\ n \in DOMAIN output[1].swatches
                          /\ output[1].swatches[n] = F[n]
                     ELSE n \notin DOMAIN output[1].swatches

\* A merge in which the primary keeps Vibrant against the fallback's, takes
\* DarkMuted from the fallback, and DarkVibrant stays missing.
C12_Witness ==
    /\ Merged
    /\ DOMAIN input.primary = {"Vibrant", "Muted"}
    /\ input.palette = << <<200, 40, 40>>, <<40, 40, 60>> >>
    /\ output[1].swatches["Vibrant"] = PrimarySwatch(1)
    /\ output[1].swatches["DarkMuted"] = MockSwatch(<<40, 40, 60>>)
    /\ "DarkVibrant" \notin DOMAIN output[1].swatches

\* The primary extractor left a category out and the fallback failed.
FallbackFailed ==
    /\ output # <<>>
    /\ ~input.vibrantThrows
    /\ DOMAIN input.primary # Range(requiredSwatches)
    /\ input.palette = <<>>

\* C13: when the fallback extractor fails, getSwatchesFromImage resolves with
\* the primary extractor's SwatchSet, and that SwatchSet is in swatchCache.
C13_FallbackFailureCaught ==
    FallbackFailed =>
        /\ output[1].ok
        /\ output[1].swatches = input.primary
        /\ MapHas(swatchCache, ImageSrc)
        /\ MapGet(swatchCache, ImageSrc) = input.primary

C13_Witness ==
    /\ FallbackFailed
    /\ DOMAIN input.primary = {"Muted"}
    /\ output[1].swatches = PrimaryOf({"Muted"})

\* The places of the palette whose colour classifies into category n.
PlacesOf(palette, n) ==
    {i \in 1..Len(palette) : classifyColor(palette[i][1], palette[i][2], palette[i][3]) = n}

\* C14: getColorThiefSwatches keeps, for each category, the first colour of
\* the palette that classifies into it, and nothing for a category into which
\* no colour classifies.
C14_FirstColorPerCategory ==
    (output # <<>> /\ input # <<>>) =>
        /\ output[1].ok
        /\ DOMAIN output[1].swatches \subseteq Range(requiredSwatches)
        /\ \A n \in Range(requiredSwatches) :
               \A places \in {PlacesOf(input, n)} :
                   IF places = {} THEN n \notin DOMAIN output[1].swatches
                   ELSE /\ n \in DOMAIN output[1].swatches
                        /\ output[1].swatches[n].rgb
                               = input[CHOOSE i \in places : \A j \in places : i <= j]

\* A palette whose second and third colours classify as its first does.
C14_Witness ==
    /\ output # <<>>
    /\ input = << <<180, 60, 60>>, <<200, 40, 40>>, <<180, 60, 60>> >>
    /\ output[1].swatches["Vibrant"].rgb = <<180, 60, 60>>

\* getSmartAvatarColor has been applied to the SwatchSet input.on.
Selected == input.fn = "getSmartAvatarColor" /\ output # <<>>

\* The i-th category of the selector's order is present in S and its colour
\* passes the quality test.
SelectorOrder ==
    <<"Vibrant", "DarkVibrant", "LightVibrant", "Muted", "DarkMuted", "LightMuted">>
Passes(S, i) == SelectorOrder[i] \in DOMAIN S /\ isColorQualityGood(S[SelectorOrder[i]].rgb)

\* C15: when a present swatch passes the quality test, getSmartAvatarColor
\* returns the RGB of the first swatch in the order Vibrant, DarkVibrant,
\* LightVibrant, Muted, DarkMuted, LightMuted that is present and passes.
C15_SelectorPriority ==
    Selected =>
        \A i \in 1..6 :
            (Passes(input.on, i) /\ \A j \in 1..(i - 1) : ~Passes(input.on, j)) =>
                output[1].colorRgb = input.on[SelectorOrder[i]].rgb

\* Vibrant is present and fails, Muted and LightMuted pass: Muted's colour.
C15_Witness ==
    /\ Selected
    /\ DOMAIN input.on = {"Vibrant", "Muted", "LightMuted"}
    /\ ~Passes(input.on, 1) /\ Passes(input.on, 4) /\ Passes(input.on, 6)
    /\ output[1].colorRgb = <<128, 64, 64>>

\* The population of swatch n of S (1 for a swatch without getPopulation),
\* and the sum over the swatches of S of channel ch times population (of the
\* populations for ch = 0).
PopulationOf(S, n) == IF S[n].hasPop THEN S[n].pop ELSE 1
TermOf(S, n, ch) ==
    IF n \notin DOMAIN S THEN 0
    ELSE IF ch = 0 THEN PopulationOf(S, n) ELSE S[n].rgb[ch] * PopulationOf(S, n)
WeightedSum(S, ch) ==
    TermOf(S, "Vibrant", ch) + TermOf(S, "DarkVibrant", ch) + TermOf(S, "LightVibrant", ch)
    + TermOf(S, "Muted", ch) + TermOf(S, "DarkMuted", ch) + TermOf(S, "LightMuted", ch)

\* round(n / d): the integer k with k - 1/2 <= n / d < k + 1/2.
Rounded(n, d) == CHOOSE k \in 0..255 : 2 * d * k <= 2 * n + d /\ 2 * n + d < 2 * d * (k + 1)

WeightedAverage(S) ==
    LET total == IF WeightedSum(S, 0) = 0 THEN 1 ELSE WeightedSum(S, 0)
    IN  <<Rounded(WeightedSum(S, 1), total), Rounded(WeightedSum(S, 2), total),
          Rounded(WeightedSum(S, 3), total)>>

\* C16: when the SwatchSet is not empty and no present swatch passes the
\* quality test, getSmartAvatarColor returns the population-weighted average
\* of the present swatches, whatever its quality.
C16_WeightedAverage ==
    (Selected /\ DOMAIN input.on # {} /\ \A i \in 1..6 : ~Passes(input.on, i)) =>
        output[1].colorRgb = WeightedAverage(input.on)

\* Two swatches of population 1 and 3 and one without population, none of
\* good quality: the averages (10 + 3 * 251 + 128) / 5 = 178.2 and
\* (10 + 3 * 251 + 120) / 5 = 176.6 round to 178 and 177, a grey that does not
\* pass the quality test either.
C16_Witness ==
    /\ Selected
    /\ input.on = [n \in {"Vibrant", "Muted", "LightMuted"} |->
                       IF n = "Vibrant" THEN Swatch(<<10, 10, 10>>, 1)
                       ELSE IF n = "Muted" THEN Swatch(<<251, 251, 251>>, 3)
                       ELSE MockSwatch(<<128, 120, 120>>)]
    /\ output[1].colorRgb = <<178, 177, 177>>
    /\ ~isColorQualityGood(output[1].colorRgb)

\* C17: on a SwatchSet without any swatch getSmartAvatarColor resolves to
\* null, and getCharacterDialogueColor returns the default colour
\* (225, 138, 36).
C17_NoUsableColor ==
    (Selected /\ DOMAIN input.on = {}) =>
        /\ output[1].colorRgb = <<>>
        /\ output[1].exColor.from = "rgb"
        /\ output[1].exColor.rgb = <<225, 138, 36>>

C17_Witness ==
    /\ Selected
    /\ input.on = EmptySwatches
    /\ output[1].exColor = FromRgb(<<225, 138, 36>>, <<>>, 0)

\* C18: isColorQualityGood accepts an RGB triple exactly when its luminance
\* (0.299 R + 0.587 G + 0.114 B) / 255 lies in [0.15, 0.95] and
\* (max - min) / max of its channels is at least 0.2 (the inequalities
\* cleared of their denominators), and rejects a missing RGB.
C18_QualityFilter ==
    (input.fn = "isColorQualityGood" /\ output # <<>>) =>
        output[1] =
            (/\ input.on # <<>>
             /\ 15 * 255 * 1000 <= 100 * (299 * input.on[1] + 587 * input.on[2]
                                            + 114 * input.on[3])
             /\ 100 * (299 * input.on[1] + 587 * input.on[2] + 114 * input.on[3])
                    <= 95 * 255 * 1000
             /\ Max3(input.on[1], input.on[2], input.on[3]) > 0
             /\ 10 * (Max3(input.on[1], input.on[2], input.on[3])
                       - Min3(input.on[1], input.on[2], input.on[3]))
                    >= 2 * Max3(input.on[1], input.on[2], input.on[3]))

\* The HSL saturation and lightness of a colour with greatest channel M and
\* least channel m, as fractions <<numerator, denominator>>.
LightnessOf(M, m) == <<M + m, 510>>
SaturationOf(M, m) ==
    IF M = m THEN <<0, 1>>
    ELSE IF M + m > 255 THEN <<M - m, 510 - M - m>> ELSE <<M - m, M + m>>

\* C19: classifyColor gives every RGB triple the category band + kind, kind
\* Vibrant iff the HSL saturation exceeds 40 %, band Dark iff the lightness is
\* below 40 %, Light iff it exceeds 60 %, and none otherwise.
C19_ClassifyThresholds ==
    (input.fn = "classifyColor" /\ output # <<>>) =>
        \E M \in {Max3(input.on[1], input.on[2], input.on[3])} :
        \E m \in {Min3(input.on[1], input.on[2], input.on[3])} :
            output[1] =
                (IF 100 * LightnessOf(M, m)[1] < 40 * LightnessOf(M, m)[2] THEN "Dark"
                 ELSE IF 100 * LightnessOf(M, m)[1] > 60 * LightnessOf(M, m)[2] THEN "Light"
                 ELSE "")
                \o (IF 100 * SaturationOf(M, m)[1] > 40 * SaturationOf(M, m)[2]
                    THEN "Vibrant" ELSE "Muted")

\* makeBetterContrast has been applied, on a dark theme, to a colour of
\* lightness input.on.l.
Brightened == input.fn = "makeBetterContrast" /\ ~input.on.isLight /\ output # <<>>
LightnessIn == input.on.hsla.l
LightnessOut == output[1].l

\* C20: on a dark theme makeBetterContrast sets a lightness l to 0.65 when
\* l < 0.5, to 0.7 when 0.5 <= l < 0.7, to 0.8 when l > 0.85, and leaves it
\* when 0.7 <= l <= 0.85.
C20_DarkThemeLightness ==
    Brightened =>
        /\ LightnessIn < 500 => LightnessOut = 650
        /\ (500 <= LightnessIn /\ LightnessIn < 700) => LightnessOut = 700
        /\ LightnessIn > 850 => LightnessOut = 800
        /\ (700 <= LightnessIn /\ LightnessIn <= 850) => LightnessOut = LightnessIn

C20_Witness == Brightened /\ LightnessIn = 300 /\ LightnessOut = 650

\* makeBetterContrast has been applied on a light theme.
Darkened == input.fn = "makeBetterContrast" /\ input.on.isLight /\ output # <<>>

\* C21: on a light theme makeBetterContrast sets a lightness l to 0.45 when
\* l > 0.6, to 0.4 when 0.4 < l <= 0.6, to 0.25 when l < 0.2, and leaves it
\* when 0.2 <= l <= 0.4.
C21_LightThemeLightness ==
    Darkened =>
        /\ LightnessIn > 600 => LightnessOut = 450
        /\ (400 < LightnessIn /\ LightnessIn <= 600) => LightnessOut = 400
        /\ LightnessIn < 200 => LightnessOut = 250
        /\ (200 <= LightnessIn /\ LightnessIn <= 400) => LightnessOut = LightnessIn

C21_Witness == Darkened /\ LightnessIn = 800 /\ LightnessOut = 450

\* makeBetterContrast has been applied.
Contrasted == input.fn = "makeBetterContrast" /\ output # <<>>

\* The saturation floor of a saturation s, in thousandths.
SaturationFloor(s) == IF s < 400 THEN (IF s + 300 <= 800 THEN s + 300 ELSE 800) ELSE s

Newest == calls'[Len(calls')]
StaticCall ==
    /\ Len(calls') = Len(calls) + 1
    /\ extSettings[Newest.stChar.type].colorizeSource = STATIC_COLOR

ReturnsStaticColor ==
    /\ Newest.pc = "done"
    /\ Newest.ret.from = "hex"
    /\ Newest.ret.hex = extSettings[Newest.stChar.type].staticColor
    /\ UNCHANGED <<avatarColorCache, cacheInsertionOrder>>

InvalidHexEntered ==
    /\ input' # input
    /\ input'.fn = "focusout"
    /\ input'.on.text # ""
    /\ ~isValidHexString(trim(input'.on.text))

\* C24: when the text of a colour override input is not empty and not a valid
\* hex string, getTextValidHexOrDefault returns the default it was given (""),
\* no override is applied, and colorOverrides and the final-colour cache keep
\* their values.
C24_InvalidHexRejected ==
    [][InvalidHexEntered =>
          /\ output' = <<"">>
          /\ UNCHANGED <<extSettings, avatarColorCache, cacheInsertionOrder>>]_vars

\* "#12345" was entered for a character that has the override "#abc" while the
\* cache held a colour: the override is still "#abc" and the cache holds it.
C24_Witness ==
    /\ input # <<>>
    /\ input.fn = "focusout"
    /\ input.on.text = "#12345"
    /\ output = <<"">>
    /\ input.on.stChar.avatarName \in DOMAIN extSettings[input.on.stChar.type].colorOverrides
    /\ extSettings[input.on.stChar.type].colorOverrides[input.on.stChar.avatarName] = "#abc"
    /\ avatarColorCache # [k \in {} |-> NullColor]

\* createDownscaledCanvas has been applied.
Downscaled == input.fn = "createDownscaledCanvas" /\ output # <<>>

\* The canvas an image of w by h should get for the maximum m.
CanvasFor(w, h, m) ==
    LET Pixels(n, d) ==
            CHOOSE k \in 0..m : 2 * d * k <= 2 * n + d /\ 2 * n + d < 2 * d * (k + 1)
    IN  IF w <= m /\ h <= m THEN [width |-> w, height |-> h]
        ELSE IF w > h THEN [width |-> m, height |-> Pixels(h * m, w)]
        ELSE [width |-> Pixels(w * m, h), height |-> m]

\* C25: the canvas of createDownscaledCanvas has the image's size when neither
\* side exceeds maxDimension; otherwise its longer side is maxDimension and
\* its other side the proportionally scaled side rounded to a whole pixel;
\* neither side of the canvas exceeds maxDimension.
C25_DownscaledSize ==
    Downscaled =>
        /\ output[1] = CanvasFor(input.on.image.width, input.on.image.height,
                                 input.on.maxDimension)
        /\ output[1].width <= input.on.maxDimension
        /\ output[1].height <= input.on.maxDimension

C25_Witness ==
    /\ Downscaled
    /\ input.on.image = [width |-> 3000, height |-> 2047]
    /\ input.on.maxDimension = 1024
    /\ output[1] = [width |-> 1024, height |-> 699]

\* The c-th call, an idle one while fewer calls have started.
CallAt(c) == IF c \in Slots THEN calls[c] ELSE IdleCall

\* C26: whether or not the images of HungSrc ever load, a call that waits for
\* an image of another src gets past its wait and settles, and when it has
\* settled the final-colour cache holds its key.
C26_HungLoadBlocksOnlyItsKey ==
    \A c \in 1..MaxStarts :
        (CallAt(c).pc = "waitImage" /\ AvatarSrc(CallAt(c).stChar) # HungSrc)
            ~> (CallAt(c).pc = "done" /\ CallAt(c).cacheKey \in DOMAIN avatarColorCache)

\* A call for HungSrc still waits for its image, and a call started after it
\* for another src has run its extraction, has settled and is cached.
C26_Witness ==
    \E c1, c2 \in Slots :
        /\ c1 < c2
        /\ calls[c1].pc = "waitImage"
        /\ AvatarSrc(calls[c1].stChar) = HungSrc
        /\ AvatarSrc(calls[c2].stChar) # HungSrc
        /\ calls[c2].pc = "done"
        /\ Got(c2)
        /\ calls[c2].cacheKey \in DOMAIN avatarColorCache
        /\ ~MapHas(swatchCache, HungSrc)

\* C27: cacheInsertionOrder holds exactly the keys of avatarColorCache, each
\* exactly once, after every run that adds to the cache or removes from it.
C27_OrderInSync ==
    /\ Range(cacheInsertionOrder) = DOMAIN avatarColorCache
    /\ Len(cacheInsertionOrder) = Cardinality(DOMAIN avatarColorCache)

\* C28: avatarColorCache holds at most MAX_CACHE_SIZE entries after every
\* addToCache.
C28_CacheSizeBounded == Cardinality(DOMAIN avatarColorCache) <= MAX_CACHE_SIZE

\* C29: the colour avatarColorCache holds under the key of a character, a
\* boost flag and a theme is the default colour or was made by
\* makeBetterContrast with that boost flag and that theme.
C29_EntryMatchesKey ==
    \A stChar \in ActiveChars : \A boostVibrancy, isLight \in BOOLEAN :
        CacheKey(stChar, boostVibrancy, isLight) \in DOMAIN avatarColorCache =>
            avatarColorCache[CacheKey(stChar, boostVibrancy, isLight)].enh
                \in {<<>>, <<boostVibrancy, isLight>>}

\* The default colour as getCharacterDialogueColor returns it.
IsDefaultColor(exColor) ==
    /\ exColor.from = "rgb"
    /\ exColor.rgb = DEFAULT_STATIC_DIALOGUE_COLOR_RGB
    /\ exColor.enh = <<>>

\* In this step the extraction of call c fails and the call ends: its
\* getSmartAvatarColor has rejected, or the call starts, misses the cache and
\* getAvatarImageThumbnail throws.
FailsIn(c) ==
    /\ calls'[c].pc = "done"
    /\ calls'[c].cacheKey # ""
    /\ \/ c \in Slots /\ calls[c].pc = "gotSwatches" /\ ~calls[c].res.ok
       \/ c \notin Slots /\ calls'[c].cacheKey \notin DOMAIN avatarColorCache

\* In this step call c starts in Avatar Smart mode with a key under which the
\* cache holds the default colour.
StartsOnDefault(c) ==
    /\ c \notin Slots
    /\ calls'[c].cacheKey # ""
    /\ calls'[c].cacheKey \in DOMAIN avatarColorCache
    /\ IsDefaultColor(avatarColorCache[calls'[c].cacheKey])

\* C30: a call of getCharacterDialogueColor whose extraction fails returns
\* the default colour and leaves it in the cache under its key; a later call
\* that finds it there returns it at once, and no extraction runs for it.
C30_FailureGivesCachedDefault ==
    [][\A c \in DOMAIN calls' :
          /\ FailsIn(c) =>
                 /\ IsDefaultColor(calls'[c].ret)
                 /\ calls'[c].cacheKey \in DOMAIN avatarColorCache'
                 /\ avatarColorCache'[calls'[c].cacheKey] = calls'[c].ret
          /\ StartsOnDefault(c) =>
                 /\ calls'[c].pc = "done"
                 /\ calls'[c].ret = avatarColorCache[calls'[c].cacheKey]
                 /\ UNCHANGED <<extractions, swatchCache, pendingSwatches>>]_vars

\* The extraction of a first call was rejected, and a second call with the
\* same key has returned the default colour from the cache: the extractor
\* ran once.
C30_Witness ==
    \E c1, c2 \in Slots :
        /\ c1 < c2
        /\ calls[c1].pc = "done"
        /\ Got(c1)
        /\ ~calls[c1].res.ok
        /\ IsDefaultColor(calls[c1].ret)
        /\ calls[c2].cacheKey = calls[c1].cacheKey
        /\ calls[c2].pc = "done"
        /\ ~Got(c2)
        /\ IsDefaultColor(calls[c2].ret)
        /\ calls[c2].cacheKey \in DOMAIN avatarColorCache
        /\ ExtractionsOf(AvatarSrc(calls[c2].stChar)) = 1

\* C31: the lightness makeBetterContrast hands to hsl2rgb lies in [0.65, 0.85]
\* on a dark theme and in [0.2, 0.45] on a light theme, for every colour and
\* either value of boostVibrancy.
C31_LightnessInBand ==
    Contrasted =>
        IF input.on.isLight
        THEN 200 <= LightnessOut /\ LightnessOut <= 450
        ELSE 650 <= LightnessOut /\ LightnessOut <= 850

\* A very bright colour on a dark theme with the vibrancy boost: its lightness
\* 0.95 has become 0.8.
C31_Witness ==
    /\ Contrasted
    /\ ~input.on.isLight
    /\ input.on.boostVibrancy
    /\ LightnessIn = 950
    /\ LightnessOut = 800

\* A step that starts a call of getCharacterDialogueColor, the newest of
\* calls'; the settings of its character's type, and whether they hold a
\* colour override for the character.
CallStarts == Len(calls') = Len(calls) + 1
SettingsOfNewest == extSettings[Newest.stChar.type]
Overridden == Newest.stChar.avatarName \in DOMAIN SettingsOfNewest.colorOverrides

C33_OnlySmartTouchesCache ==
    [][(CallStarts /\ (Overridden \/ SettingsOfNewest.colorizeSource # AVATAR_SMART)) =>
          /\ Newest.pc = "done"
          /\ Newest.cacheKey = ""
          /\ UNCHANGED <<avatarColorCache, cacheInsertionOrder, swatchCache, pendingSwatches,
                         extractions>>]_vars

\* With the persona source Disabled a call for the persona returned null: the
\* cache holds the one entry a call for the character left, and no extraction
\* has run for the persona's avatar.
C33_Witness ==
    \E c1, c2 \in Slots :
        /\ c1 < c2
        /\ calls[c1].stChar = STChar(CHARACTER, "A")
        /\ calls[c1].pc = "done"
        /\ cacheInsertionOrder = <<calls[c1].cacheKey>>
        /\ calls[c2].stChar = STChar(PERSONA, "A")
        /\ calls[c2].pc = "done"
        /\ calls[c2].ret = NullColor
        /\ extSettings[PERSONA].colorizeSource = DISABLED
        /\ ExtractionsOf(AvatarSrc(calls[c2].stChar)) = 0

\* The updates of the style sheet of a type, in starting order.
UpdatesOf(charType) == SelectSeq(updates, LAMBDA update : update.type = charType)

\* C34: once every update of a style sheet has settled, the sheet holds the
\* styles the update that started last computed.
C34_LatestUpdateWins ==
    \A charType \in CharacterType :
        \E started \in {UpdatesOf(charType)} :
            (started # <<>> /\ \A i \in DOMAIN started : started[i].settled) =>
                styleSheets[charType] = StylesOf(started[Len(started)])

\* C35: the canvas createDownscaledCanvas makes for an image of at least one
\* pixel by one pixel is at least one pixel wide and one pixel high.
C35_CanvasNotEmpty ==
    (Downscaled /\ input.on.image.width >= 1 /\ input.on.image.height >= 1) =>
        (output[1].width >= 1 /\ output[1].height >= 1)

\* getSwatchesFromImage has run on an image on which Vibrant does not throw;
\* output[2] counts its calls of getColorThiefSwatches.
Extracted == output # <<>> /\ ~input.vibrantThrows
PrimaryComplete == Range(requiredSwatches) \subseteq DOMAIN input.primary

\* C37: getSwatchesFromImage calls getColorThiefSwatches exactly when the
\* primary extractor's result lacks one of the six required categories; when
\* it has all six, the SwatchSet returned and cached is the primary result.
C37_FallbackOnlyWhenMissing ==
    Extracted =>
        /\ output[2] = (IF PrimaryComplete THEN 0 ELSE 1)
        /\ PrimaryComplete =>
               /\ output[1].ok
               /\ output[1].swatches = input.primary
               /\ MapHas(swatchCache, ImageSrc)
               /\ MapGet(swatchCache, ImageSrc) = input.primary

\* The primary extractor found all six categories on an image whose palette
\* would have given the fallback a swatch: no call of the fallback.
C37_Witness ==
    /\ Extracted
    /\ PrimaryComplete
    /\ input.palette # <<>>
    /\ output[2] = 0
    /\ output[1].swatches = PrimaryOf(Range(requiredSwatches))

\* The calls of the debounced function f and the invocations of its fn, in
\* order.
CallsOf(f) == SelectSeq(scheduled, LAMBDA call : call.fn = f)
InvokedOf(f) == SelectSeq(invoked, LAMBDA invocation : invocation.fn = f)

\* Every call of lasts, a set of places in CallsOf(f), has one invocation of
\* its own, with its arguments and no earlier than delay after it, and fn has
\* no other invocation.
InvokedOncePer(f, lasts) ==
    /\ Len(InvokedOf(f)) = Cardinality(lasts)
    /\ \A i \in lasts :
           \E j \in DOMAIN InvokedOf(f) :
               /\ InvokedOf(f)[j].args = CallsOf(f)[i].args
               /\ InvokedOf(f)[j].at >= CallsOf(f)[i].at + DelayTicks

\* The last calls of the runs of f, a run being calls that each come less
\* than delay after the one before.
LastOfTimedRuns(f) ==
    {i \in DOMAIN CallsOf(f) :
        i = Len(CallsOf(f)) \/ CallsOf(f)[i + 1].at - CallsOf(f)[i].at >= DelayTicks}

\* The last calls of the runs of f, a run being calls that each come while
\* the timer of the one before is still to fire.
LastOfPendingRuns(f) ==
    {i \in DOMAIN CallsOf(f) : i = Len(CallsOf(f)) \/ ~CallsOf(f)[i + 1].early}

ScheduledAt(k) ==
    IF k \in DOMAIN scheduled THEN scheduled[k]
    ELSE [fn |-> "", args |-> <<0>>, at |-> 0, early |-> FALSE]

====
